---------------------------- MODULE Spec2Model ----------------------------
(***************************************************************************)
(* The command-line driver of the compiler, src/src/tsc/tsc.ts: one        *)
(* invocation of executeCommandLine (and of performBuild, to which it      *)
(* redirects), as a state machine over the position in the dispatcher.     *)
(* The dispatcher treats the statistics table as one text; reportStatistics *)
(* itself, row by row, is checked on its own over programs and measures.   *)
(*                                                                         *)
(* The raw arguments and the terminal probe are fixed when the process     *)
(* starts.  Everything an external collaborator decides (the parsed        *)
(* command line, the file system lookups, the parsed configuration, the    *)
(* properties the host object has, what the engines report and return) is  *)
(* chosen when the dispatcher asks for it.                                 *)
(***************************************************************************)
EXTENDS Integers, Sequences, FiniteSets, TLC

VARIABLES
    pc,                 \* position in the dispatcher
    args,               \* ts.sys.args: a sequence of tokens, each a sequence of characters
    sys,                \* the host: the terminal probe, and each optional property once read
    commandLine,        \* the ParsedCommandLine of parseCommandLine (line 63)
    configFileName,     \* line 71
    configParseResult,  \* the result of parseConfigFileWithSystem (line 134)
    buildCommand,       \* the result of parseBuildCommand (line 185)
    reporterPretty,     \* whether the bound reportDiagnostic is the pretty one (line 15)
    perfEnabled,        \* performance.enable() / performance.disable()
    measures,           \* the measures performance holds, in the order they were first made
    program,            \* the Program handed to reportStatistics (line 319)
    statistics,         \* the statistics of the last reporting pass (line 320)
    trace               \* everything the invocation did, in order

vars == <<pc, args, sys, commandLine, configFileName, configParseResult,
          buildCommand, reporterPretty, perfEnabled, measures, program, statistics,
          trace>>

-----------------------------------------------------------------------------
(* Bounds of the model.                                                    *)

\* at most this many options deviate from their default on one command line
MaxSetOptions == 2
\* at most this many diagnostics in an errors array
MaxErrors == 1
\* at most this many file names / projects on a command line
MaxFiles == 1
\* at most this many diagnostics reported by one engine run
MaxEngineDiags == 1
\* a watch engine creates at most this many programs in one session
MaxPrograms == 2

-----------------------------------------------------------------------------
(* Values.                                                                 *)

Undefined == "undefined"

\* ExitStatus, as the dispatcher names its members (lines 67, 85)
ExitStatus == {"Success", "DiagnosticsPresent_OutputsSkipped", "DiagnosticsPresent_OutputsGenerated"}

\* String.prototype.toLowerCase on one character (line 57)
LowerChar(c) ==
    CASE c = "B" -> "b"
      [] c = "U" -> "u"
      [] c = "I" -> "i"
      [] c = "L" -> "l"
      [] c = "D" -> "d"
      [] OTHER -> c

\* String.prototype.toLowerCase (line 57)
ToLowerCase(s) == [i \in 1..Len(s) |-> LowerChar(s[i])]

\* s.slice(n): the string from (0-based) index n on (lines 57, 59)
Slice(s, n) == SubSeq(s, n + 1, Len(s))

\* the tokens a first argument is drawn from
Tokens ==
    { <<"-", "b">>, <<"-", "-", "B">>, <<"-", "B", "u", "I", "l", "D">>,
      <<"-", "-", "b", "u", "i", "l", "d">>,
      <<"-", "-", "-", "b">>, <<"b">>, <<"-">>, <<"-", "b", "x">>, << >> }

\* the argument vectors: empty, one token, or a token followed by a build flag
ArgVectors ==
    { << >> } \cup { <<t>> : t \in Tokens }
    \cup { <<t, <<"-", "-", "b">> >> : t \in { <<"-", "B", "u", "I", "l", "D">>, <<"b">> } }

\* a variant of IsBuildFirst that strips one '-' only
IsBuildFirst_OneMinus(a) ==
    /\ Len(a) > 0
    /\ Len(a[1]) > 0
    /\ a[1][1] = "-"
    /\ LET firstOption == ToLowerCase(Slice(a[1], 1))
       IN  firstOption = <<"b", "u", "i", "l", "d">> \/ firstOption = <<"b">>

\* lines 56-58: the first argument is the build flag
IsBuildFirst(a) ==
    /\ Len(a) > 0
    /\ Len(a[1]) > 0
    /\ a[1][1] = "-"
    /\ LET firstOption ==
               ToLowerCase(Slice(a[1], IF Len(a[1]) > 1 /\ a[1][2] = "-" THEN 2 ELSE 1))
       IN  firstOption = <<"b", "u", "i", "l", "d">> \/ firstOption = <<"b">>


-----------------------------------------------------------------------------
(* The option bags and what the collaborators return.                      *)

\* CompilerOptions with no option given
DefaultOptions ==
    [ build |-> FALSE, locale |-> Undefined, init |-> FALSE, version |-> FALSE,
      help |-> FALSE, all |-> FALSE, project |-> Undefined, showConfig |-> FALSE,
      pretty |-> Undefined, watch |-> FALSE, incremental |-> FALSE,
      diagnostics |-> FALSE, extendedDiagnostics |-> FALSE ]

\* the options the dispatcher reads (lines 27, 50, 65-99, 135, 146, 150, 314), over
\* their values; project "." is the current directory
AllOptions ==
    [ build : BOOLEAN, locale : {Undefined, "ja"}, init : BOOLEAN, version : BOOLEAN,
      help : BOOLEAN, all : BOOLEAN, project : {Undefined, ".", "p"},
      showConfig : BOOLEAN, pretty : {Undefined, "true", "false"}, watch : BOOLEAN,
      incremental : BOOLEAN, diagnostics : BOOLEAN, extendedDiagnostics : BOOLEAN ]

\* how many options of o were given
NumSet(o) == Cardinality({f \in DOMAIN o : o[f] # DefaultOptions[f]})

\* the option bags parseCommandLine may return
OptionBags == {o \in AllOptions : NumSet(o) <= MaxSetOptions}

\* a fileNames (or projects) array of n names
Names(n) == [i \in 1..n |-> i]

\* a diagnostic: createCompilerDiagnostic(message, argument)
Diagnostic(code, arg) == <<code, arg>>

\* an errors array of n diagnostics
Errors(n, code) == [i \in 1..n |-> Diagnostic(code, Undefined)]

\* what parseCommandLine may return (line 63)
CommandLines ==
    { [options |-> o, fileNames |-> Names(f), errors |-> Errors(e, "Command_line_error")] :
        o \in OptionBags, f \in 0..MaxFiles, e \in 0..MaxErrors }

\* what a configuration file may add to the options: command-line values win
ConfigFileOptions ==
    [ pretty : {Undefined, "true", "false"}, watch : BOOLEAN, incremental : BOOLEAN,
      diagnostics : BOOLEAN ]

\* the options of a ParsedCommandLine of a configuration file c merged with the
\* command line's options o (line 134)
MergedOptions(o, c) ==
    [o EXCEPT !.pretty = IF @ = Undefined THEN c.pretty ELSE @,
              !.watch = @ \/ c.watch,
              !.incremental = @ \/ c.incremental,
              !.diagnostics = @ \/ c.diagnostics]

\* what parseConfigFileWithSystem may return for command-line options o (line 134)
ConfigParseResults(o) ==
    { [options |-> MergedOptions(o, c), fileNames |-> Names(MaxFiles),
       errors |-> Errors(e, "Config_file_error")] :
        c \in ConfigFileOptions, e \in 0..MaxErrors }

\* the options parseBuildCommand fills in (lines 187, 194, 206, 210)
BuildOptionBags ==
    [ help : BOOLEAN, clean : BOOLEAN, watch : BOOLEAN, pretty : {Undefined, "true", "false"} ]

\* what parseBuildCommand may return (line 185)
BuildCommands ==
    { [buildOptions |-> o, projects |-> Names(p), errors |-> Errors(e, "Build_command_error")] :
        o \in BuildOptionBags, p \in 0..MaxFiles, e \in 0..MaxErrors }

\* what an engine run (emitFilesAndReportErrors, ts.performIncrementalCompilation,
\* buildAllProjects, cleanAllProjects) may do: report diags diagnostics and return
\* status; a status that says diagnostics are present comes with diagnostics
EngineOutcomes ==
    { r \in [diags : 0..MaxEngineDiags, status : ExitStatus] :
        r.status # "Success" => r.diags > 0 }

\* isWatchSet (lines 146, 164)
IsWatchSet(options) == options.watch

\* isIncrementalCompilation (lines 150, 168)
IsIncrementalCompilation(options) == options.incremental

-----------------------------------------------------------------------------
(* The trace: events <<kind, what, argument>>.                             *)

\* reportDiagnostic(d) through a reporter that is pretty or plain
Diag(code, pretty) == <<"diag", code, pretty>>

\* errors.forEach(reportDiagnostic) (lines 79, 138, 190)
ReportAll(errors, pretty) == [i \in 1..Len(errors) |-> Diag(errors[i], pretty)]

\* sys.write of a text (lines 142, 160, 233, 379), printVersion, printHelp
Write(what, arg) == <<"write", what, arg>>

\* a call of a collaborator
Call(what, arg) == <<"call", what, arg>>

\* what a collaborator returned
Return(what, status) == <<"return", what, status>>

\* what a probe of the file system answered: "true" or "false"
Answer(what, found) == <<"answer", what, IF found THEN "true" ELSE "false">>

\* sys.exit(status)
Exit(status) == <<"exit", status, Undefined>>

\* host.hook = ... : a callback is put on a host (lines 217, 225, 290)
SetHook(hook) == <<"set", hook, Undefined>>

\* the events of trace of kind k
OfKind(k) == SelectSeq(trace, LAMBDA e : e[1] = k)

\* the calls of collaborator c in trace
CallsOf(c) == SelectSeq(trace, LAMBDA e : e[1] = "call" /\ e[2] = c)

\* the number of calls of the collaborators in cs
NumCalls(cs) == Len(SelectSeq(trace, LAMBDA e : e[1] = "call" /\ e[2] \in cs))

\* the statuses handed to sys.exit, in order
ExitStatuses == [i \in 1..Len(OfKind("exit")) |-> OfKind("exit")[i][2]]

\* the diagnostics reported, in order
Reported == [i \in 1..Len(OfKind("diag")) |-> OfKind("diag")[i][2]]


-----------------------------------------------------------------------------
(* The reporter, the statistics switch and the engines.                    *)

\* defaultIsPretty (lines 22-24)
DefaultIsPretty == sys.writeOutputIsTTY = "true"

\* a variant of ShouldBePretty that takes a false pretty option for an unset one
ShouldBePretty_Falsy(options) ==
    IF options.pretty = "true" THEN TRUE ELSE DefaultIsPretty

\* shouldBePretty (lines 26-31)
ShouldBePretty(options) ==
    IF options.pretty = Undefined THEN DefaultIsPretty ELSE options.pretty = "true"

\* updateReportDiagnostic (lines 16-20): the prettiness of the reporter bound afterwards
UpdateReportDiagnostic(options) ==
    IF ShouldBePretty(options) THEN TRUE ELSE reporterPretty

\* updateReportDiagnostic(options) (lines 16-20): the call, and the reporter it
\* creates, if it creates one
Rebind(options) ==
    << <<"call", "updateReportDiagnostic", options>> >>
    \o (IF ShouldBePretty(options) THEN << <<"rebind", "reportDiagnostic", TRUE>> >>
        ELSE << >>)

\* the condition of enableStatistics and reportStatistics (lines 314, 322)
WantsStatistics(options) == options.diagnostics \/ options.extendedDiagnostics

\* enableStatistics (lines 313-317): the events and the switch afterwards
EnableStatistics(options) ==
    IF WantsStatistics(options) THEN << <<"perf", "enable", Undefined>> >> ELSE << >>

\* reportStatistics (lines 319-363): the table is written, then performance.disable()
ReportStatistics(options) ==
    IF WantsStatistics(options)
    THEN << Write("statistics", Undefined), <<"perf", "disable", Undefined>> >>
    ELSE << >>

\* the switch after the events evs
PerfAfter(evs) ==
    LET perf == SelectSeq(evs, LAMBDA e : e[1] = "perf")
    IN  IF perf = << >> THEN perfEnabled ELSE perf[Len(perf)][2] = "enable"

\* what an engine run with outcome r reports: its diagnostics through reportDiagnostic,
\* then the error summary if createReportErrorSummary gave one (lines 231-235)
EngineReports(r, pretty, summary) ==
    ReportAll(Errors(r.diags, "Engine_diagnostic"), pretty)
    \o (IF summary THEN << Write("errorSummary", Undefined) >> ELSE << >>)

\* the dispatcher goes on to position p having done evs
Goto(p, evs) ==
    /\ pc' = p
    /\ trace' = trace \o evs
    /\ perfEnabled' = PerfAfter(evs)
    /\ UNCHANGED <<measures, program, statistics>>

\* return sys.exit(status) after evs (lines 67, 80, ..., 259, 265): the dispatcher
\* calls sys.exit and returns, and nothing follows executeCommandLine (line 423)
SysExit(evs, status) == Goto("exited", evs \o << Exit(status) >>)

\* sys.exit(status) with no return after it (line 180): the process ends in sys.exit
ExitProcess(evs, status) == Goto("exited", evs \o << Exit(status) >>)

\* performCompilation (lines 237-260), after the events pre of its caller, with the
\* reporter bound being pretty or not
PerformCompilation(options, pre, pretty) ==
    \E r \in EngineOutcomes :
        SysExit(pre
                \o EnableStatistics(options)
                \o << Call("createProgram", options) >>
                \o EngineReports(r, pretty, ShouldBePretty(options))
                \o << Return("emitFilesAndReportErrors", r.status) >>
                \o ReportStatistics(options),
                r.status)

\* performIncrementalCompilation (lines 262-274): the engine emits, calls
\* afterProgramEmitAndDiagnostics and returns its status
PerformIncrementalCompilation(options, pre, pretty) ==
    \E r \in EngineOutcomes :
        SysExit(pre
                \o EnableStatistics(options)
                \o << Call("performIncrementalCompilation", options) >>
                \o EngineReports(r, pretty, ShouldBePretty(options))
                \o ReportStatistics(options)
                \o << Return("performIncrementalCompilation", r.status) >>,
                r.status)

\* what reading the property p of a host h may give: what it gave before, if it was read
Read(h, p) == IF h[p] = "unread" THEN {"present", "absent"} ELSE {h[p]}

\* reportWatchModeWithoutSysSupport (lines 177-182) reads sys.watchFile and
\* sys.watchDirectory: the two properties as read on host h
WatchProbes(h) == [watchFile : Read(h, "watchFile"), watchDirectory : Read(h, "watchDirectory")]

\* a variant of NoWatchSupport that looks at sys.watchFile only
NoWatchSupport_FileOnly(w) == w.watchFile = "absent"

\* the condition of line 178
NoWatchSupport(w) == w.watchFile = "absent" \/ w.watchDirectory = "absent"

\* the diagnostic of lines 179 and 207
HostDoesNotSupport(option) ==
    Diagnostic("The_current_host_does_not_support_the_0_option", option)

\* a variant of WatchOrExit that goes on to create the watch program after sys.exit
WatchOrExit_GoesOn(options, create) ==
    /\ reporterPretty' = UpdateReportDiagnostic(options)
    /\ \E w \in WatchProbes(sys) :
        /\ sys' = [sys EXCEPT !.watchFile = w.watchFile, !.watchDirectory = w.watchDirectory]
        /\ Goto("watching",
                Rebind(options)
                \o (IF NoWatchSupport(w)
                    THEN << Diag(HostDoesNotSupport("--watch"), reporterPretty'),
                            Exit("DiagnosticsPresent_OutputsSkipped") >>
                    ELSE << >>)
                \o << Call(create, options), Call("updateCreateProgram", Undefined),
                      SetHook("afterProgramCreate"),
                      Call("createWatchProgram", options) >>)

\* updateReportDiagnostic, reportWatchModeWithoutSysSupport and the creation of the
\* watch program (lines 145-149, 163-167, 300-311): the process exits if the host
\* cannot watch, and otherwise stays in the watch session
WatchOrExit(options, create) ==
    /\ reporterPretty' = UpdateReportDiagnostic(options)
    /\ \E w \in WatchProbes(sys) :
        /\ sys' = [sys EXCEPT !.watchFile = w.watchFile, !.watchDirectory = w.watchDirectory]
        /\ IF NoWatchSupport(w)
           THEN ExitProcess(Rebind(options)
                            \o << Diag(HostDoesNotSupport("--watch"), reporterPretty') >>,
                            "DiagnosticsPresent_OutputsSkipped")
           ELSE Goto("watching",
                     Rebind(options)
                     \o << Call(create, options), Call("updateCreateProgram", Undefined),
                           SetHook("afterProgramCreate"),
                           Call("createWatchProgram", options) >>)


-----------------------------------------------------------------------------
(* executeCommandLine (lines 55-175).                                      *)

Skipped == "DiagnosticsPresent_OutputsSkipped"

Init ==
    /\ pc = "start"
    /\ args \in ArgVectors
    /\ sys \in [ writeOutputIsTTY : {Undefined, "true", "false"},
                 watchFile : {"unread"}, watchDirectory : {"unread"},
                 getModifiedTime : {"unread"}, setModifiedTime : {"unread"},
                 deleteFile : {"unread"}, getMemoryUsage : {"unread"},
                 memoryUsage : {0} ]
    /\ commandLine = Undefined
    /\ configFileName = Undefined
    /\ configParseResult = Undefined
    /\ buildCommand = Undefined
    /\ reporterPretty = FALSE
    /\ perfEnabled = FALSE
    /\ measures = << >>
    /\ program = Undefined
    /\ statistics = << >>
    /\ trace = << >>

\* lines 56-61: the build flag first hands the rest of the arguments to performBuild
BuildRedirect ==
    /\ pc = "start"
    /\ IsBuildFirst(args)
    /\ Goto("performBuild", << Call("performBuild", Slice(args, 1)) >>)
    /\ UNCHANGED <<args, sys, commandLine, configFileName, configParseResult,
                   buildCommand, reporterPretty>>

\* line 63
ParseCommandLine ==
    /\ pc = "start"
    /\ ~IsBuildFirst(args)
    /\ \E cl \in CommandLines : commandLine' = cl
    /\ Goto("parsed", << Call("parseCommandLine", args) >>)
    /\ UNCHANGED <<args, sys, configFileName, configParseResult, buildCommand,
                   reporterPretty>>

\* a variant of BuildMustBeFirst that comes after the parse errors are reported
BuildMustBeFirst_AfterErrors ==
    /\ pc = "parsed"
    /\ commandLine.options.build
    /\ SysExit(ReportAll(commandLine.errors, reporterPretty)
               \o << Diag(Diagnostic("Option_build_must_be_the_first_command_line_argument",
                                     Undefined), reporterPretty) >>, Skipped)
    /\ UNCHANGED <<args, sys, commandLine, configFileName, configParseResult,
                   buildCommand, reporterPretty>>

\* lines 65-68
BuildMustBeFirst ==
    /\ pc = "parsed"
    /\ commandLine.options.build
    /\ SysExit(<< Diag(Diagnostic("Option_build_must_be_the_first_command_line_argument",
                                  Undefined), reporterPretty) >>, Skipped)
    /\ UNCHANGED <<args, sys, commandLine, configFileName, configParseResult,
                   buildCommand, reporterPretty>>

\* lines 72-74: validateLocaleAndSetLanguage may add to commandLine.errors
ValidateLocale ==
    /\ pc = "parsed"
    /\ ~commandLine.options.build
    /\ IF commandLine.options.locale # Undefined
       THEN \E ok \in BOOLEAN :
               /\ commandLine' =
                      [commandLine EXCEPT !.errors =
                          IF ok THEN @
                          ELSE Append(@, Diagnostic("Unsupported_locale_0",
                                                    commandLine.options.locale))]
               /\ Goto("validated",
                       << Call("validateLocaleAndSetLanguage", commandLine.options.locale) >>)
       ELSE /\ commandLine' = commandLine
            /\ Goto("validated", << >>)
    /\ UNCHANGED <<args, sys, configFileName, configParseResult, buildCommand,
                   reporterPretty>>

\* lines 78-81
ReportCommandLineErrors ==
    /\ pc = "validated"
    /\ Len(commandLine.errors) > 0
    /\ SysExit(ReportAll(commandLine.errors, reporterPretty), Skipped)
    /\ UNCHANGED <<args, sys, commandLine, configFileName, configParseResult,
                   buildCommand, reporterPretty>>

\* normalizePath (line 105): "." is the current directory, the empty path
NormalizePath(path) == IF path = "." THEN "" ELSE path

\* combinePaths(directory, "tsconfig.json") (line 107)
CombinePaths(directory, name) ==
    IF directory = "" THEN name ELSE directory \o "/" \o name

\* the file of writeConfigFile (lines 397-398): the tsconfig.json of the current
\* directory
InitFile == NormalizePath(CombinePaths("cwd", "tsconfig.json"))

\* a variant of WriteConfigFile that writes the file whether it is there or not
WriteConfigFile_Overwrites ==
    /\ pc = "validated"
    /\ Len(commandLine.errors) = 0
    /\ commandLine.options.init
    /\ \E exists \in BOOLEAN :
          SysExit(<< Call("fileExists", InitFile), Answer("fileExists", exists),
                     Call("writeFile", InitFile),
                     Diag(Diagnostic("Successfully_created_a_tsconfig_json_file",
                                     Undefined), reporterPretty) >>,
                  "Success")
    /\ UNCHANGED <<args, sys, commandLine, configFileName, configParseResult,
                   buildCommand, reporterPretty>>

\* lines 83-86 and writeConfigFile (lines 396-408)
WriteConfigFile ==
    /\ pc = "validated"
    /\ Len(commandLine.errors) = 0
    /\ commandLine.options.init
    /\ \E exists \in BOOLEAN :
          SysExit(<< Call("fileExists", InitFile), Answer("fileExists", exists) >>
                  \o (IF exists
                      THEN << Diag(Diagnostic(
                                "A_tsconfig_json_file_is_already_defined_at_Colon_0",
                                InitFile), reporterPretty) >>
                      ELSE << Call("writeFile", InitFile),
                              Diag(Diagnostic("Successfully_created_a_tsconfig_json_file",
                                              Undefined), reporterPretty) >>),
                  "Success")
    /\ UNCHANGED <<args, sys, commandLine, configFileName, configParseResult,
                   buildCommand, reporterPretty>>

\* a variant of PrintVersion that does not wait for the init check
PrintVersion_IgnoresInit ==
    /\ pc = "validated"
    /\ Len(commandLine.errors) = 0
    /\ commandLine.options.version
    /\ SysExit(<< Write("version", Undefined) >>, "Success")
    /\ UNCHANGED <<args, sys, commandLine, configFileName, configParseResult,
                   buildCommand, reporterPretty>>

\* lines 88-91
PrintVersion ==
    /\ pc = "validated"
    /\ Len(commandLine.errors) = 0
    /\ ~commandLine.options.init
    /\ commandLine.options.version
    /\ SysExit(<< Write("version", Undefined) >>, "Success")
    /\ UNCHANGED <<args, sys, commandLine, configFileName, configParseResult,
                   buildCommand, reporterPretty>>

\* getOptionsForHelp (lines 48-53): every option sorted, or the simplified view
GetOptionsForHelp(cl) == IF cl.options.all THEN "all, sorted" ELSE "simplified"

\* lines 93-97
PrintHelp ==
    /\ pc = "validated"
    /\ Len(commandLine.errors) = 0
    /\ ~commandLine.options.init
    /\ ~commandLine.options.version
    /\ commandLine.options.help \/ commandLine.options.all
    /\ SysExit(<< Write("version", Undefined), Write("help", GetOptionsForHelp(commandLine)) >>, "Success")
    /\ UNCHANGED <<args, sys, commandLine, configFileName, configParseResult,
                   buildCommand, reporterPretty>>

\* the checks of lines 78-97 let the invocation through
PastEarlyExits ==
    /\ pc = "validated"
    /\ Len(commandLine.errors) = 0
    /\ ~commandLine.options.init
    /\ ~commandLine.options.version
    /\ ~(commandLine.options.help \/ commandLine.options.all)


\* a variant of ProjectMixedWithFiles that looks the project up before it refuses
ProjectMixedWithFiles_AfterLookup ==
    /\ PastEarlyExits
    /\ commandLine.options.project # Undefined
    /\ Len(commandLine.fileNames) # 0
    /\ SysExit(<< Call("directoryExists", commandLine.options.project),
                  Diag(Diagnostic(
                     "Option_project_cannot_be_mixed_with_source_files_on_a_command_line",
                     Undefined), reporterPretty) >>, Skipped)
    /\ UNCHANGED <<args, sys, commandLine, configFileName, configParseResult,
                   buildCommand, reporterPretty>>

\* lines 99-103
ProjectMixedWithFiles ==
    /\ PastEarlyExits
    /\ commandLine.options.project # Undefined
    /\ Len(commandLine.fileNames) # 0
    /\ SysExit(<< Diag(Diagnostic(
                     "Option_project_cannot_be_mixed_with_source_files_on_a_command_line",
                     Undefined), reporterPretty) >>, Skipped)
    /\ UNCHANGED <<args, sys, commandLine, configFileName, configParseResult,
                   buildCommand, reporterPretty>>

\* a variant of ProjectFileMissing that checks only the tsconfig.json of a directory
ProjectFileMissing_DirectoryOnly(isDirectory, fileExists) == isDirectory /\ ~fileExists

\* !sys.fileExists(configFileName) (lines 108 and 114), in either branch of line 106
ProjectFileMissing(isDirectory, fileExists) == ~fileExists

\* lines 105-119: the project is a directory holding a tsconfig.json, or a file
ResolveProject ==
    /\ PastEarlyExits
    /\ commandLine.options.project # Undefined
    /\ Len(commandLine.fileNames) = 0
    /\ LET fileOrDirectory == NormalizePath(commandLine.options.project)
       IN  \E isDirectory \in (IF fileOrDirectory = "" THEN {TRUE} ELSE BOOLEAN),
              fileExists \in BOOLEAN :
             LET name == IF isDirectory THEN CombinePaths(fileOrDirectory, "tsconfig.json")
                         ELSE fileOrDirectory
                 lookups == (IF fileOrDirectory = "" THEN << >>
                             ELSE << Call("directoryExists", fileOrDirectory),
                                     Answer("directoryExists", isDirectory) >>)
                            \o << Call("fileExists", name), Answer("fileExists", fileExists) >>
             IN  IF ~ProjectFileMissing(isDirectory, fileExists)
                 THEN /\ configFileName' = name
                      /\ Goto("resolved", lookups)
                 ELSE /\ configFileName' = name
                      /\ SysExit(lookups \o
                                 << Diag(Diagnostic(
                                      IF isDirectory
                                      THEN "Cannot_find_a_tsconfig_json_file_at_the_specified_directory_Colon_0"
                                      ELSE "The_specified_path_does_not_exist_Colon_0",
                                      commandLine.options.project), reporterPretty) >>,
                                 Skipped)
    /\ UNCHANGED <<args, sys, commandLine, configParseResult, buildCommand, reporterPretty>>

\* lines 121-124: findConfigFile searches upward from the current directory
FindConfigFile ==
    /\ PastEarlyExits
    /\ commandLine.options.project = Undefined
    /\ Len(commandLine.fileNames) = 0
    /\ \E found \in {Undefined, CombinePaths("cwd", "tsconfig.json")} :
          configFileName' = found
    /\ Goto("resolved", << Call("findConfigFile", "cwd") >>)
    /\ UNCHANGED <<args, sys, commandLine, configParseResult, buildCommand, reporterPretty>>

\* lines 99-124 with no project option and file names given: nothing is looked up
FileNamesGiven ==
    /\ PastEarlyExits
    /\ commandLine.options.project = Undefined
    /\ Len(commandLine.fileNames) # 0
    /\ Goto("resolved", << >>)
    /\ UNCHANGED <<args, sys, commandLine, configFileName, configParseResult,
                   buildCommand, reporterPretty>>

\* a variant of PrintHelpNoInput that prints the help without the version
PrintHelpNoInput_NoVersion ==
    /\ pc = "resolved"
    /\ Len(commandLine.fileNames) = 0
    /\ configFileName = Undefined
    /\ SysExit(<< Write("help", GetOptionsForHelp(commandLine)) >>, "Success")
    /\ UNCHANGED <<args, sys, commandLine, configFileName, configParseResult,
                   buildCommand, reporterPretty>>

\* lines 126-130
PrintHelpNoInput ==
    /\ pc = "resolved"
    /\ Len(commandLine.fileNames) = 0
    /\ configFileName = Undefined
    /\ SysExit(<< Write("version", Undefined), Write("help", GetOptionsForHelp(commandLine)) >>, "Success")
    /\ UNCHANGED <<args, sys, commandLine, configFileName, configParseResult,
                   buildCommand, reporterPretty>>

\* line 134
ParseConfigFile ==
    /\ pc = "resolved"
    /\ ~(Len(commandLine.fileNames) = 0 /\ configFileName = Undefined)
    /\ configFileName # Undefined
    /\ \E r \in ConfigParseResults(commandLine.options) : configParseResult' = r
    /\ Goto("configParsed", << Call("parseConfigFileWithSystem", configFileName) >>)
    /\ UNCHANGED <<args, sys, commandLine, configFileName, buildCommand, reporterPretty>>

\* a variant of ShowConfigErrors that goes on to write the configuration
ShowConfigErrors_WritesJson ==
    /\ pc = "configParsed"
    /\ commandLine.options.showConfig
    /\ Len(configParseResult.errors) # 0
    /\ reporterPretty' = UpdateReportDiagnostic(configParseResult.options)
    /\ SysExit(Rebind(configParseResult.options)
               \o ReportAll(configParseResult.errors, reporterPretty')
               \o << Write("json", configFileName) >>, Skipped)
    /\ UNCHANGED <<args, sys, commandLine, configFileName, configParseResult, buildCommand>>

\* lines 135-140
ShowConfigErrors ==
    /\ pc = "configParsed"
    /\ commandLine.options.showConfig
    /\ Len(configParseResult.errors) # 0
    /\ reporterPretty' = UpdateReportDiagnostic(configParseResult.options)
    /\ SysExit(Rebind(configParseResult.options)
               \o ReportAll(configParseResult.errors, reporterPretty'), Skipped)
    /\ UNCHANGED <<args, sys, commandLine, configFileName, configParseResult, buildCommand>>

\* lines 142-143
ShowConfig ==
    /\ pc = "configParsed"
    /\ commandLine.options.showConfig
    /\ Len(configParseResult.errors) = 0
    /\ SysExit(<< Write("json", configFileName) >>, "Success")
    /\ UNCHANGED <<args, sys, commandLine, configFileName, configParseResult,
                   buildCommand, reporterPretty>>

\* lines 145-149
WatchOfConfigFile ==
    /\ pc = "configParsed"
    /\ ~commandLine.options.showConfig
    /\ IsWatchSet(configParseResult.options)
    /\ WatchOrExit(configParseResult.options, "createWatchCompilerHostOfConfigFile")
    /\ UNCHANGED <<args, commandLine, configFileName, configParseResult, buildCommand>>

\* lines 150-152
IncrementalOfConfigFile ==
    /\ pc = "configParsed"
    /\ ~commandLine.options.showConfig
    /\ ~IsWatchSet(configParseResult.options)
    /\ IsIncrementalCompilation(configParseResult.options)
    /\ reporterPretty' = UpdateReportDiagnostic(configParseResult.options)
    /\ PerformIncrementalCompilation(configParseResult.options,
                                     Rebind(configParseResult.options), reporterPretty')
    /\ UNCHANGED <<args, sys, commandLine, configFileName, configParseResult, buildCommand>>

\* a variant of CompilationOfConfigFile that tests the command line's own options
CompilationOfConfigFile_RawOptions ==
    /\ pc = "configParsed"
    /\ ~commandLine.options.showConfig
    /\ ~IsWatchSet(commandLine.options)
    /\ ~IsIncrementalCompilation(commandLine.options)
    /\ reporterPretty' = UpdateReportDiagnostic(configParseResult.options)
    /\ PerformCompilation(configParseResult.options,
                          Rebind(configParseResult.options), reporterPretty')
    /\ UNCHANGED <<args, sys, commandLine, configFileName, configParseResult, buildCommand>>

\* lines 153-155
CompilationOfConfigFile ==
    /\ pc = "configParsed"
    /\ ~commandLine.options.showConfig
    /\ ~IsWatchSet(configParseResult.options)
    /\ ~IsIncrementalCompilation(configParseResult.options)
    /\ reporterPretty' = UpdateReportDiagnostic(configParseResult.options)
    /\ PerformCompilation(configParseResult.options,
                          Rebind(configParseResult.options), reporterPretty')
    /\ UNCHANGED <<args, sys, commandLine, configFileName, configParseResult, buildCommand>>

\* the else branch of line 157 is taken
NoConfigFile ==
    /\ pc = "resolved"
    /\ ~(Len(commandLine.fileNames) = 0 /\ configFileName = Undefined)
    /\ configFileName = Undefined

\* lines 158-162
ShowConfigOfCommandLine ==
    /\ NoConfigFile
    /\ commandLine.options.showConfig
    /\ SysExit(<< Write("json", CombinePaths("cwd", "tsconfig.json")) >>, "Success")
    /\ UNCHANGED <<args, sys, commandLine, configFileName, configParseResult,
                   buildCommand, reporterPretty>>

\* lines 163-167
WatchOfFilesAndCompilerOptions ==
    /\ NoConfigFile
    /\ ~commandLine.options.showConfig
    /\ IsWatchSet(commandLine.options)
    /\ WatchOrExit(commandLine.options, "createWatchCompilerHostOfFilesAndCompilerOptions")
    /\ UNCHANGED <<args, commandLine, configFileName, configParseResult, buildCommand>>

\* lines 168-170
IncrementalOfFiles ==
    /\ NoConfigFile
    /\ ~commandLine.options.showConfig
    /\ ~IsWatchSet(commandLine.options)
    /\ IsIncrementalCompilation(commandLine.options)
    /\ reporterPretty' = UpdateReportDiagnostic(commandLine.options)
    /\ PerformIncrementalCompilation(commandLine.options, Rebind(commandLine.options),
                                     reporterPretty')
    /\ UNCHANGED <<args, sys, commandLine, configFileName, configParseResult, buildCommand>>

\* lines 171-173
CompilationOfFiles ==
    /\ NoConfigFile
    /\ ~commandLine.options.showConfig
    /\ ~IsWatchSet(commandLine.options)
    /\ ~IsIncrementalCompilation(commandLine.options)
    /\ reporterPretty' = UpdateReportDiagnostic(commandLine.options)
    /\ PerformCompilation(commandLine.options, Rebind(commandLine.options), reporterPretty')
    /\ UNCHANGED <<args, sys, commandLine, configFileName, configParseResult, buildCommand>>


-----------------------------------------------------------------------------
(* performBuild (lines 184-229).                                           *)

\* lines 185-187
ParseBuildCommand ==
    /\ pc = "performBuild"
    /\ \E bc \in BuildCommands :
          /\ buildCommand' = bc
          /\ reporterPretty' = UpdateReportDiagnostic(bc.buildOptions)
          /\ Goto("buildParsed",
                  << Call("parseBuildCommand", Slice(args, 1)) >> \o Rebind(bc.buildOptions))
    /\ UNCHANGED <<args, sys, commandLine, configFileName, configParseResult>>

\* lines 189-192
ReportBuildErrors ==
    /\ pc = "buildParsed"
    /\ Len(buildCommand.errors) > 0
    /\ SysExit(ReportAll(buildCommand.errors, reporterPretty), Skipped)
    /\ UNCHANGED <<args, sys, commandLine, configFileName, configParseResult,
                   buildCommand, reporterPretty>>

\* a variant of PrintBuildHelp that does not wait for the errors check
PrintBuildHelp_IgnoresErrors ==
    /\ pc = "buildParsed"
    /\ buildCommand.buildOptions.help
    /\ SysExit(<< Write("version", Undefined), Write("help", "--build ") >>, "Success")
    /\ UNCHANGED <<args, sys, commandLine, configFileName, configParseResult,
                   buildCommand, reporterPretty>>

\* lines 194-198
PrintBuildHelp ==
    /\ pc = "buildParsed"
    /\ Len(buildCommand.errors) = 0
    /\ buildCommand.buildOptions.help
    /\ SysExit(<< Write("version", Undefined), Write("help", "--build ") >>, "Success")
    /\ UNCHANGED <<args, sys, commandLine, configFileName, configParseResult,
                   buildCommand, reporterPretty>>

\* lines 200-204
PrintBuildHelpNoProjects ==
    /\ pc = "buildParsed"
    /\ Len(buildCommand.errors) = 0
    /\ ~buildCommand.buildOptions.help
    /\ Len(buildCommand.projects) = 0
    /\ SysExit(<< Write("version", Undefined), Write("help", "--build ") >>, "Success")
    /\ UNCHANGED <<args, sys, commandLine, configFileName, configParseResult,
                   buildCommand, reporterPretty>>

\* line 206 reads sys.getModifiedTime, sys.setModifiedTime and sys.deleteFile: the
\* three properties as read on host h
BuildProbes(h) ==
    [ getModifiedTime : Read(h, "getModifiedTime"),
      setModifiedTime : Read(h, "setModifiedTime"),
      deleteFile : Read(h, "deleteFile") ]

\* the condition of line 206
NoBuildSupport(b, buildOptions) ==
    \/ b.getModifiedTime = "absent"
    \/ b.setModifiedTime = "absent"
    \/ (buildOptions.clean /\ b.deleteFile = "absent")

\* a variant of CheckBuildSupport that exits without reporting the diagnostic
CheckBuildSupport_Silent ==
    /\ pc = "buildParsed"
    /\ Len(buildCommand.errors) = 0
    /\ ~buildCommand.buildOptions.help
    /\ Len(buildCommand.projects) # 0
    /\ \E b \in BuildProbes(sys) :
          /\ sys' = [sys EXCEPT !.getModifiedTime = b.getModifiedTime,
                                !.setModifiedTime = b.setModifiedTime,
                                !.deleteFile = b.deleteFile]
          /\ IF NoBuildSupport(b, buildCommand.buildOptions)
             THEN SysExit(<< >>, Skipped)
             ELSE Goto("buildSupported", << >>)
    /\ UNCHANGED <<args, commandLine, configFileName, configParseResult, buildCommand,
                   reporterPretty>>

\* lines 206-209
CheckBuildSupport ==
    /\ pc = "buildParsed"
    /\ Len(buildCommand.errors) = 0
    /\ ~buildCommand.buildOptions.help
    /\ Len(buildCommand.projects) # 0
    /\ \E b \in BuildProbes(sys) :
          /\ sys' = [sys EXCEPT !.getModifiedTime = b.getModifiedTime,
                                !.setModifiedTime = b.setModifiedTime,
                                !.deleteFile = b.deleteFile]
          /\ IF NoBuildSupport(b, buildCommand.buildOptions)
             THEN SysExit(<< Diag(HostDoesNotSupport("--build"), reporterPretty) >>, Skipped)
             ELSE Goto("buildSupported", << >>)
    /\ UNCHANGED <<args, commandLine, configFileName, configParseResult, buildCommand,
                   reporterPretty>>

\* what the solution builder does for each project it builds: the createProgram of
\* updateCreateProgram (lines 276-285) with the project's options, then
\* afterProgramEmitAndDiagnostics (lines 217, 225)
BuildPrograms(projects, options) ==
    LET one == EnableStatistics(options)
               \o << Call("createProgram", options) >>
               \o ReportStatistics(options)
        RECURSIVE all(_)
        all(n) == IF n = 0 THEN << >> ELSE all(n - 1) \o one
    IN  all(Len(projects))

\* the options of the projects a solution builder builds
ProjectOptions == [diagnostics : BOOLEAN, extendedDiagnostics : {FALSE}]

\* a variant of BuildWatch that puts the statistics hook on the host after the
\* first build
BuildWatch_HookLate ==
    /\ pc = "buildSupported"
    /\ buildCommand.buildOptions.watch
    /\ \E w \in WatchProbes(sys) :
        /\ sys' = [sys EXCEPT !.watchFile = w.watchFile, !.watchDirectory = w.watchDirectory]
        /\ IF NoWatchSupport(w)
           THEN ExitProcess(<< Diag(HostDoesNotSupport("--watch"), reporterPretty) >>,
                            Skipped)
           ELSE \E r \in EngineOutcomes, o \in ProjectOptions :
                  Goto("watching",
                       << Call("createSolutionBuilderWithWatchHost", buildCommand.buildOptions),
                          Call("updateCreateProgram", Undefined),
                          Call("createSolutionBuilderWithWatch", buildCommand.projects),
                          Call("buildAllProjects", buildCommand.projects) >>
                       \o BuildPrograms(buildCommand.projects, o)
                       \o EngineReports(r, reporterPretty, FALSE)
                       \o << Return("buildAllProjects", r.status),
                             SetHook("afterProgramEmitAndDiagnostics"),
                             Call("startWatching", o) >>)
    /\ UNCHANGED <<args, commandLine, configFileName, configParseResult, buildCommand,
                   reporterPretty>>

\* lines 210-221: build --watch
BuildWatch ==
    /\ pc = "buildSupported"
    /\ buildCommand.buildOptions.watch
    /\ \E w \in WatchProbes(sys) :
        /\ sys' = [sys EXCEPT !.watchFile = w.watchFile, !.watchDirectory = w.watchDirectory]
        /\ IF NoWatchSupport(w)
           THEN ExitProcess(<< Diag(HostDoesNotSupport("--watch"), reporterPretty) >>,
                            Skipped)
           ELSE \E r \in EngineOutcomes, o \in ProjectOptions :
                  Goto("watching",
                       << Call("createSolutionBuilderWithWatchHost", buildCommand.buildOptions),
                          Call("updateCreateProgram", Undefined),
                          SetHook("afterProgramEmitAndDiagnostics"),
                          Call("createSolutionBuilderWithWatch", buildCommand.projects),
                          Call("buildAllProjects", buildCommand.projects) >>
                       \o BuildPrograms(buildCommand.projects, o)
                       \o EngineReports(r, reporterPretty, FALSE)
                       \o << Return("buildAllProjects", r.status),
                             Call("startWatching", o) >>)
    /\ UNCHANGED <<args, commandLine, configFileName, configParseResult, buildCommand,
                   reporterPretty>>

\* a variant of CleanAllProjects with the two arms of line 227 swapped
CleanAllProjects_Builds ==
    /\ pc = "buildSupported"
    /\ ~buildCommand.buildOptions.watch
    /\ buildCommand.buildOptions.clean
    /\ \E r \in EngineOutcomes :
          SysExit(<< Call("createSolutionBuilderHost", buildCommand.buildOptions),
                     Call("updateCreateProgram", Undefined),
                     SetHook("afterProgramEmitAndDiagnostics"),
                     Call("createSolutionBuilder", buildCommand.projects),
                     Call("buildAllProjects", buildCommand.projects) >>
                  \o EngineReports(r, reporterPretty, FALSE)
                  \o << Return("buildAllProjects", r.status) >>,
                  r.status)
    /\ UNCHANGED <<args, sys, commandLine, configFileName, configParseResult,
                   buildCommand, reporterPretty>>

\* lines 222-228 with buildOptions.clean
CleanAllProjects ==
    /\ pc = "buildSupported"
    /\ ~buildCommand.buildOptions.watch
    /\ buildCommand.buildOptions.clean
    /\ \E r \in EngineOutcomes :
          SysExit(<< Call("createSolutionBuilderHost", buildCommand.buildOptions),
                     Call("updateCreateProgram", Undefined),
                     SetHook("afterProgramEmitAndDiagnostics"),
                     Call("createSolutionBuilder", buildCommand.projects),
                     Call("cleanAllProjects", buildCommand.projects) >>
                  \o EngineReports(r, reporterPretty, FALSE)
                  \o << Return("cleanAllProjects", r.status) >>,
                  r.status)
    /\ UNCHANGED <<args, sys, commandLine, configFileName, configParseResult,
                   buildCommand, reporterPretty>>

\* lines 222-228 without buildOptions.clean
BuildAllProjects ==
    /\ pc = "buildSupported"
    /\ ~buildCommand.buildOptions.watch
    /\ ~buildCommand.buildOptions.clean
    /\ \E r \in EngineOutcomes, o \in ProjectOptions :
          SysExit(<< Call("createSolutionBuilderHost", buildCommand.buildOptions),
                     Call("updateCreateProgram", Undefined),
                     SetHook("afterProgramEmitAndDiagnostics"),
                     Call("createSolutionBuilder", buildCommand.projects),
                     Call("buildAllProjects", buildCommand.projects) >>
                  \o BuildPrograms(buildCommand.projects, o)
                  \o EngineReports(r, reporterPretty,
                                   ShouldBePretty(buildCommand.buildOptions))
                  \o << Return("buildAllProjects", r.status) >>,
                  r.status)
    /\ UNCHANGED <<args, sys, commandLine, configFileName, configParseResult,
                   buildCommand, reporterPretty>>

-----------------------------------------------------------------------------
(* The watch session (lines 276-311, 214-221).                             *)

\* the options of the programs the session compiles: those the watch host was
\* created with (lines 301, 308), or those of the projects of the solution
WatchedOptions ==
    IF CallsOf("createWatchProgram") # << >>
    THEN CallsOf("createWatchProgram")[1][3]
    ELSE CallsOf("startWatching")[1][3]

\* a variant of WatchProgram whose program is reported before it is emitted and
\* capture is turned on only then
WatchProgram_EnablesLate ==
    /\ pc = "watching"
    /\ NumCalls({"compileUsingBuilder"}) < MaxPrograms
    /\ \E n \in 0..MaxEngineDiags :
          Goto("watching",
               << Call("compileUsingBuilder", WatchedOptions) >>
               \o ReportStatistics(WatchedOptions)
               \o ReportAll(Errors(n, "Engine_diagnostic"), reporterPretty)
               \o EnableStatistics(WatchedOptions))
    /\ UNCHANGED <<args, sys, commandLine, configFileName, configParseResult,
                   buildCommand, reporterPretty>>

\* the watch engine compiles a program: the createProgram of updateCreateProgram
\* (lines 278-284), the engine's emit with its diagnostics (line 291), and
\* reportStatistics (lines 217, 292)
WatchProgram ==
    /\ pc = "watching"
    /\ NumCalls({"compileUsingBuilder"}) < MaxPrograms
    /\ \E n \in 0..MaxEngineDiags :
          Goto("watching",
               EnableStatistics(WatchedOptions)
               \o << Call("compileUsingBuilder", WatchedOptions) >>
               \o ReportAll(Errors(n, "Engine_diagnostic"), reporterPretty)
               \o ReportStatistics(WatchedOptions))
    /\ UNCHANGED <<args, sys, commandLine, configFileName, configParseResult,
                   buildCommand, reporterPretty>>

-----------------------------------------------------------------------------

Next ==
    \/ BuildRedirect
    \/ ParseCommandLine
    \/ BuildMustBeFirst
    \/ ValidateLocale
    \/ ReportCommandLineErrors
    \/ WriteConfigFile
    \/ PrintVersion
    \/ PrintHelp
    \/ ProjectMixedWithFiles
    \/ ResolveProject
    \/ FindConfigFile
    \/ FileNamesGiven
    \/ PrintHelpNoInput
    \/ ParseConfigFile
    \/ ShowConfigErrors
    \/ ShowConfig
    \/ WatchOfConfigFile
    \/ IncrementalOfConfigFile
    \/ CompilationOfConfigFile
    \/ ShowConfigOfCommandLine
    \/ WatchOfFilesAndCompilerOptions
    \/ IncrementalOfFiles
    \/ CompilationOfFiles
    \/ ParseBuildCommand
    \/ ReportBuildErrors
    \/ PrintBuildHelp
    \/ PrintBuildHelpNoProjects
    \/ CheckBuildSupport
    \/ BuildWatch
    \/ CleanAllProjects
    \/ BuildAllProjects
    \/ WatchProgram

Spec == Init /\ [][Next]_vars

\* the same invocations on a host whose properties are known from the start
InitHost ==
    /\ pc = "start"
    /\ args \in { << <<"-", "-", "B", "u", "i", "l", "d">> >>, << <<"b">> >> }
    /\ sys \in [ writeOutputIsTTY : {"true"},
                 watchFile : {"present", "absent"}, watchDirectory : {"present", "absent"},
                 getModifiedTime : {"present", "absent"},
                 setModifiedTime : {"present", "absent"},
                 deleteFile : {"present", "absent"}, getMemoryUsage : {"unread"},
                 memoryUsage : {0} ]
    /\ commandLine = Undefined
    /\ configFileName = Undefined
    /\ configParseResult = Undefined
    /\ buildCommand = Undefined
    /\ reporterPretty = FALSE
    /\ perfEnabled = FALSE
    /\ measures = << >>
    /\ program = Undefined
    /\ statistics = << >>
    /\ trace = << >>

SpecHost == InitHost /\ [][Next]_vars


-----------------------------------------------------------------------------
(* reportStatistics (lines 319-394), row by row.                           *)

\* a duration performance holds is at most this many milliseconds
MaxDuration == 3
\* a source file has at most this many line starts
MaxLines == 2

\* padLeft (lines 33-38)
RECURSIVE padLeft(_, _)
padLeft(s, length) == IF Len(s) < length THEN padLeft(" " \o s, length) ELSE s

\* padRight (lines 40-46)
RECURSIVE padRight(_, _)
padRight(s, length) == IF Len(s) < length THEN padRight(s \o " ", length) ELSE s

\* countLines (lines 7-13): sourceFiles holds the number of line starts of each file
RECURSIVE countLines(_)
countLines(sourceFiles) ==
    IF sourceFiles = << >> THEN 0
    ELSE countLines(SubSeq(sourceFiles, 1, Len(sourceFiles) - 1))
         + sourceFiles[Len(sourceFiles)]

\* the times t below 100 ms ending in 5 whose double t / 1000 lies below the decimal
\* t / 1000 (0.015, 0.045, 0.075), so that toFixed(2) gives the lower hundredth
HalfBelow == {15, 45, 75}

\* (time / 1000).toFixed(2) (line 392) for a whole number of milliseconds below 100:
\* the hundredth of a second nearest to the double time / 1000
ToFixed2(time) ==
    LET up == time % 10 > 5 \/ (time % 10 = 5 /\ time \notin HalfBelow)
        hundredths == (time \div 10) + (IF up THEN 1 ELSE 0)
    IN  ToString(hundredths \div 100) \o "."
        \o ToString((hundredths % 100) \div 10) \o ToString(hundredths % 10)

\* Math.round(memoryUsed / 1000) (line 333) for memoryUsed >= 0: halves round up
RoundKilo(memoryUsed) == (memoryUsed + 500) \div 1000

\* performance.getDuration(name) (lines 336-339, 352-353) over the measures ms:
\* the duration measured under name, 0 if there is none
getDuration(ms, name) ==
    LET found == SelectSeq(ms, LAMBDA m : m[1] = name)
    IN  IF found = << >> THEN 0 ELSE found[1][2]

\* reportStatisticalValue (lines 383-385)
reportStatisticalValue(stats, name, value) ==
    Append(stats, [name |-> name, value |-> value])

\* reportCountStatistic (lines 387-389)
reportCountStatistic(stats, name, count) ==
    reportStatisticalValue(stats, name, ToString(count))

\* reportTimeStatistic (lines 391-393)
reportTimeStatistic(stats, name, time) ==
    reportStatisticalValue(stats, name, ToFixed2(time) \o "s")

\* performance.forEachMeasure((name, duration) => reportTimeStatistic(...)) (line 345)
RECURSIVE forEachMeasure(_, _)
forEachMeasure(stats, ms) ==
    IF ms = << >> THEN stats
    ELSE forEachMeasure(reportTimeStatistic(stats, ms[1][1] \o " time", ms[1][2]), Tail(ms))

\* a variant of TotalTime that counts the I/O times once more
TotalTime_WithIO(ms) ==
    getDuration(ms, "Program") + getDuration(ms, "Bind") + getDuration(ms, "Check")
    + getDuration(ms, "Emit") + getDuration(ms, "I/O Read") + getDuration(ms, "I/O Write")

\* programTime + bindTime + checkTime + emitTime (lines 336-339, 359)
TotalTime(ms) ==
    getDuration(ms, "Program") + getDuration(ms, "Bind") + getDuration(ms, "Check")
    + getDuration(ms, "Emit")

\* a variant of NewStatistics that goes on with the list of the pass before
NewStatistics_Kept(previous) == previous

\* statistics = [] (line 323), whatever the list of the pass before was
NewStatistics(previous) == << >>

\* a variant of MemoryShown that leaves out a usage of zero
MemoryShown_Positive(memoryUsed) == memoryUsed > 0

\* memoryUsed >= 0 (line 332)
MemoryShown(memoryUsed) == memoryUsed >= 0

\* lines 323-359: the statistics of one pass over the program prog, on the host and
\* with the measures ms, after the pass that left the list previous
CollectStatistics(previous, prog, host, ms) ==
    LET memoryUsed == IF host.getMemoryUsage = "present" THEN host.memoryUsage ELSE -1
        s1 == reportCountStatistic(NewStatistics(previous), "Files",
                                   Len(prog.sourceFiles))
        s2 == reportCountStatistic(s1, "Lines", countLines(prog.sourceFiles))
        s3 == reportCountStatistic(s2, "Nodes", prog.nodeCount)
        s4 == reportCountStatistic(s3, "Identifiers", prog.identifierCount)
        s5 == reportCountStatistic(s4, "Symbols", prog.symbolCount)
        s6 == reportCountStatistic(s5, "Types", prog.typeCount)
        s7 == IF MemoryShown(memoryUsed)
              THEN reportStatisticalValue(s6, "Memory used",
                                          ToString(RoundKilo(memoryUsed)) \o "K")
              ELSE s6
        s8 == IF prog.options.extendedDiagnostics
              THEN forEachMeasure(
                       reportCountStatistic(
                           reportCountStatistic(
                               reportCountStatistic(s7, "Assignability cache size",
                                                    prog.relationCacheSizes.assignable),
                               "Identity cache size", prog.relationCacheSizes.identity),
                           "Subtype cache size", prog.relationCacheSizes.subtype),
                       ms)
              ELSE reportTimeStatistic(
                       reportTimeStatistic(
                           reportTimeStatistic(
                               reportTimeStatistic(
                                   reportTimeStatistic(
                                       reportTimeStatistic(s7, "I/O read",
                                                           getDuration(ms, "I/O Read")),
                                       "I/O write", getDuration(ms, "I/O Write")),
                                   "Parse time", getDuration(ms, "Program")),
                               "Bind time", getDuration(ms, "Bind")),
                           "Check time", getDuration(ms, "Check")),
                       "Emit time", getDuration(ms, "Emit"))
    IN  reportTimeStatistic(s8, "Total time", TotalTime(ms))

\* the larger of two numbers
Max(a, b) == IF a > b THEN a ELSE b

\* lines 366-376: the length of the longest name of stats
RECURSIVE nameSize(_)
nameSize(stats) ==
    IF stats = << >> THEN 0 ELSE Max(nameSize(Tail(stats)), Len(stats[1].name))

\* lines 366-376: the length of the longest value of stats
RECURSIVE valueSize(_)
valueSize(stats) ==
    IF stats = << >> THEN 0 ELSE Max(valueSize(Tail(stats)), Len(stats[1].value))

\* sys.newLine
NewLine == "\n"

\* a variant of WriteStatistics that pads a name to the longest name and its colon
WriteStatistics_NoGap(stats) ==
    [i \in 1..Len(stats) |->
        Write("statistics",
              padRight(stats[i].name \o ":", nameSize(stats) + 1)
              \o padLeft(stats[i].value, valueSize(stats)) \o NewLine)]

\* the inner reportStatistics (lines 365-381): the texts handed to sys.write, in order
WriteStatistics(stats) ==
    [i \in 1..Len(stats) |->
        Write("statistics",
              padRight(stats[i].name \o ":", nameSize(stats) + 2)
              \o padLeft(stats[i].value, valueSize(stats)) \o NewLine)]

\* the compiler options reportStatistics looks at (lines 322, 340)
StatisticsOptions == [diagnostics : BOOLEAN, extendedDiagnostics : BOOLEAN]

\* the source files of a program: the number of line starts of each
SourceFiles == UNION {[1..n -> 1..MaxLines] : n \in 0..MaxFiles}

\* the programs reportStatistics is handed (lines 321-330, 341)
Programs ==
    [ options : StatisticsOptions, sourceFiles : SourceFiles, nodeCount : {0, 1234567},
      identifierCount : {12}, symbolCount : {3}, typeCount : {0},
      relationCacheSizes : {[assignable |-> 10, identity |-> 0, subtype |-> 2]} ]

\* the names performance measures under, in two orders of first measurement
MeasureOrders ==
    { << >>, <<"Program", "Bind">>,
      <<"I/O Read", "Program", "Bind", "Check", "I/O Write", "Emit">> }

\* the durations performance may hold under each name
Durations ==
    { [n \in {"Program", "Bind", "Check", "Emit", "I/O Read", "I/O Write"} |->
          CASE n = "I/O Read" -> io.read
            [] n = "I/O Write" -> io.write
            [] OTHER -> d[n]] :
        d \in [{"Program", "Bind", "Check", "Emit"} -> 0..MaxDuration],
        io \in {[read |-> 0, write |-> 0], [read |-> MaxDuration, write |-> 1]} }

\* the measures performance may hold when reportStatistics is called
MeasureLogs ==
    { [i \in 1..Len(order) |-> <<order[i], d[order[i]]>>] :
        order \in MeasureOrders, d \in Durations }

\* the hosts reportStatistics may run on: sys.getMemoryUsage missing, or returning
\* a number of bytes (line 324)
StatisticsHosts ==
    { [ writeOutputIsTTY |-> "false", watchFile |-> "unread", watchDirectory |-> "unread",
        getModifiedTime |-> "unread", setModifiedTime |-> "unread",
        deleteFile |-> "unread", getMemoryUsage |-> probe[1], memoryUsage |-> probe[2] ] :
        probe \in { <<"absent", 0>>, <<"present", -1>>, <<"present", 0>>,
                    <<"present", 1500>> } }

\* a program was compiled, with the measures made meanwhile, and is about to be
\* reported
InitStatistics ==
    /\ pc = "compiling"
    /\ args = << >>
    /\ sys \in StatisticsHosts
    /\ commandLine = Undefined
    /\ configFileName = Undefined
    /\ configParseResult = Undefined
    /\ buildCommand = Undefined
    /\ reporterPretty = FALSE
    /\ program \in Programs
    /\ perfEnabled = WantsStatistics(program.options)
    /\ measures \in MeasureLogs
    /\ perfEnabled = FALSE => measures = << >>
    /\ statistics = << >>
    /\ trace = << >>

\* reportStatistics(program) (lines 319-363)
ReportStatisticsOfProgram ==
    /\ pc = "compiling"
    /\ pc' = "reported"
    /\ IF WantsStatistics(program.options)
       THEN /\ statistics' = CollectStatistics(statistics, program, sys, measures)
            /\ trace' = trace \o WriteStatistics(statistics')
                        \o << <<"perf", "disable", Undefined>> >>
            /\ perfEnabled' = FALSE
       ELSE UNCHANGED <<statistics, trace, perfEnabled>>
    /\ UNCHANGED <<args, sys, commandLine, configFileName, configParseResult,
                   buildCommand, reporterPretty, measures, program>>

NextStatistics == ReportStatisticsOfProgram

SpecStatistics == InitStatistics /\ [][NextStatistics]_vars

-----------------------------------------------------------------------------
(* The passes of a session: the engine creates a program through the       *)
(* createProgram of updateCreateProgram (lines 276-285), measures while it *)
(* works, and has the program reported (lines 217, 225, 272, 292).         *)

\* performance.enable(): capture starts afresh, or goes on if it is on already
PerformanceEnable(enabled, ms) == IF enabled THEN ms ELSE << >>

\* what performance holds after the engine measured d milliseconds under name
PerformanceMeasure(ms, name, d) ==
    IF \E i \in 1..Len(ms) : ms[i][1] = name
    THEN [i \in 1..Len(ms) |-> IF ms[i][1] = name THEN <<name, ms[i][2] + d>> ELSE ms[i]]
    ELSE Append(ms, <<name, d>>)

\* the milliseconds performance holds, over all names
RECURSIVE Measured(_)
Measured(ms) == IF ms = << >> THEN 0 ELSE ms[1][2] + Measured(Tail(ms))

\* the programs of a session: the same sources, any options
SessionPrograms == {p \in Programs : p.sourceFiles = << >> /\ p.nodeCount = 0}

\* a session begins: nothing was compiled or measured yet
InitPasses ==
    /\ pc = "idle"
    /\ args = << >>
    /\ sys \in {h \in StatisticsHosts : h.getMemoryUsage = "absent"}
    /\ commandLine = Undefined
    /\ configFileName = Undefined
    /\ configParseResult = Undefined
    /\ buildCommand = Undefined
    /\ reporterPretty = FALSE
    /\ program \in SessionPrograms
    /\ perfEnabled = FALSE
    /\ measures = << >>
    /\ statistics = << >>
    /\ trace = << >>

\* the createProgram of updateCreateProgram (lines 278-284): enableStatistics, then
\* the engine's own createProgram
CreateProgram ==
    /\ pc \in {"idle", "compiling", "reported"}
    /\ NumCalls({"compileUsingBuilder"}) < MaxPrograms
    /\ pc' = "compiling"
    /\ trace' = trace \o EnableStatistics(program.options)
                \o << Call("compileUsingBuilder", Undefined) >>
    /\ IF WantsStatistics(program.options)
       THEN /\ measures' = PerformanceEnable(perfEnabled, measures)
            /\ perfEnabled' = TRUE
       ELSE UNCHANGED <<measures, perfEnabled>>
    /\ UNCHANGED <<args, sys, commandLine, configFileName, configParseResult,
                   buildCommand, reporterPretty, program, statistics>>

\* the engine measures a part of its work; performance keeps it if capture is on
Measure ==
    /\ pc = "compiling"
    /\ perfEnabled
    /\ \E name \in {"Program", "Check"}, d \in 1..MaxDuration :
          /\ Measured(measures) + d <= MaxDuration
          /\ measures' = PerformanceMeasure(measures, name, d)
          /\ trace' = trace \o << <<"measure", name, d>> >>
    /\ UNCHANGED <<pc, args, sys, commandLine, configFileName, configParseResult,
                   buildCommand, reporterPretty, perfEnabled, program, statistics>>

NextPasses ==
    \/ CreateProgram
    \/ Measure
    \/ ReportStatisticsOfProgram

SpecPasses == InitPasses /\ [][NextPasses]_vars

-----------------------------------------------------------------------------
(* What the claims speak of.                                               *)

\* s and t are equal up to the case of their letters
EqualIgnoringCase(s, t) ==
    /\ Len(s) = Len(t)
    /\ \A i \in 1..Len(s) : LowerChar(s[i]) = LowerChar(t[i])

\* a is one or two '-' followed by "build" or "b" in any case
IsBuildFlag(a) ==
    \E n \in {1, 2} :
        /\ Len(a) > n
        /\ \A i \in 1..n : a[i] = "-"
        /\ \/ EqualIgnoringCase(SubSeq(a, n + 1, Len(a)), <<"b", "u", "i", "l", "d">>)
           \/ EqualIgnoringCase(SubSeq(a, n + 1, Len(a)), <<"b">>)

\* the positions of executeCommandLine after parseCommandLine
ModeResolverPositions == {"parsed", "validated", "resolved", "configParsed"}

\* the invocation is over: the process has exited or a watch session took over
Terminal == pc \in {"exited", "watching"}

\* parseCommandLine ran: executeCommandLine did not redirect to performBuild
ModeResolverRan == CallsOf("parseCommandLine") # << >>

\* performBuild parsed its arguments
BuildDispatcherRan == CallsOf("parseBuildCommand") # << >>

\* a compilation, an incremental compilation or a watch session was started
CompilationStarted ==
    NumCalls({"createProgram", "performIncrementalCompilation", "createWatchProgram",
              "createWatchCompilerHostOfConfigFile",
              "createWatchCompilerHostOfFilesAndCompilerOptions"}) > 0

\* C1: when the first argument is a build flag, control goes to performBuild with
\* the rest of the arguments; parseCommandLine is never called and no later step of
\* executeCommandLine is reached
C1_BuildFlagRedirects ==
    (Len(args) > 0 /\ IsBuildFlag(args[1]) /\ pc # "start") =>
        /\ trace[1] = Call("performBuild", Tail(args))
        /\ ~ModeResolverRan
        /\ pc \notin ModeResolverPositions
        /\ BuildDispatcherRan => CallsOf("parseBuildCommand")[1][3] = Tail(args)

\* C1: a mixed-case build flag followed by another argument reached performBuild
C1_Witness ==
    /\ Len(args) = 2
    /\ args[1] = <<"-", "B", "u", "I", "l", "D">>
    /\ pc = "buildParsed"

\* C2: build set but not first: exactly the one diagnostic, the skipped status,
\* and nothing else happens
C2_BuildNotFirst ==
    (ModeResolverRan /\ commandLine.options.build) =>
        \/ pc = "parsed" /\ ENABLED BuildMustBeFirst /\ ~ENABLED ValidateLocale
        \/ /\ pc = "exited"
           /\ trace = << Call("parseCommandLine", args),
                         Diag(Diagnostic("Option_build_must_be_the_first_command_line_argument",
                                         Undefined), FALSE),
                         Exit(Skipped) >>

\* C2: an invocation with build, a locale and parse errors has exited
C2_Witness ==
    /\ pc = "exited"
    /\ ModeResolverRan
    /\ commandLine.options.build
    /\ commandLine.options.locale # Undefined
    /\ Len(commandLine.errors) > 0

\* C3: an invocation that ends outside a watch session has called sys.exit exactly
\* once, as the last thing it did; no invocation calls it twice
C3_ExitsExactlyOnce ==
    /\ Len(ExitStatuses) <= 1
    /\ Len(ExitStatuses) = 1 => pc = "exited" /\ trace[Len(trace)][1] = "exit"
    /\ ~ENABLED Next => Terminal
    /\ pc = "exited" => Len(ExitStatuses) = 1 /\ ~ENABLED Next
    /\ pc = "watching" => ExitStatuses = << >>

\* C3: a watch was asked for on a host that cannot watch, and the process exited
C3_Witness ==
    /\ pc = "exited"
    /\ ModeResolverRan
    /\ sys.watchFile = "absent"
    /\ Len(ExitStatuses) = 1


\* the configuration lookups of lines 105-134
ConfigLookups ==
    {"directoryExists", "fileExists", "findConfigFile", "parseConfigFileWithSystem"}

\* the number of those lookups made, the probe of writeConfigFile (line 399) apart
NumConfigLookups ==
    Len(SelectSeq(trace, LAMBDA e : /\ e[1] = "call"
                                    /\ e[2] \in ConfigLookups
                                    /\ ~(e[2] = "fileExists" /\ e[3] = InitFile)))

\* the one diagnostic of line 101
ProjectMixed ==
    Diagnostic("Option_project_cannot_be_mixed_with_source_files_on_a_command_line", Undefined)

\* the command line passed the checks of lines 65-97: build is unset, there are no
\* command-line or locale errors, and init, version, help and all are unset
PassedEarlyExits ==
    /\ ModeResolverRan
    /\ pc \notin {"parsed", "validated"}
    /\ ~commandLine.options.build
    /\ Len(commandLine.errors) = 0
    /\ ~commandLine.options.init
    /\ ~commandLine.options.version
    /\ ~commandLine.options.help
    /\ ~commandLine.options.all

\* C4 as stated: in every invocation with project set and file names given, the
\* "cannot be mixed" diagnostic is reported, the status is skipped, and no
\* configuration is looked up
C4_Original ==
    (/\ ModeResolverRan
     /\ Terminal
     /\ commandLine.options.project # Undefined
     /\ Len(commandLine.fileNames) # 0) =>
        /\ Reported = << ProjectMixed >>
        /\ ExitStatuses = << Skipped >>
        /\ NumCalls(ConfigLookups) = 0

\* C4, amended: the same for the invocations that pass the earlier checks (build
\* unset, no command-line or locale errors, init, version, help and all unset)
C4_ProjectMixedWithFiles ==
    (/\ PassedEarlyExits
     /\ commandLine.options.project # Undefined
     /\ Len(commandLine.fileNames) # 0) =>
        /\ pc = "exited"
        /\ Reported = << ProjectMixed >>
        /\ ExitStatuses = << Skipped >>
        /\ NumCalls(ConfigLookups) = 0
        /\ ~CompilationStarted

\* C4: a project with file names and the watch option ended at the project check
C4_Witness ==
    /\ PassedEarlyExits
    /\ pc = "exited"
    /\ commandLine.options.project = "p"
    /\ commandLine.options.watch
    /\ Len(commandLine.fileNames) = MaxFiles

\* JSON texts written
JsonWritten == SelectSeq(trace, LAMBDA e : e[1] = "write" /\ e[2] = "json")

\* the configuration file was parsed
ConfigParsed == CallsOf("parseConfigFileWithSystem") # << >>

\* the errors of the parsed configuration, none if no configuration was parsed
ConfigErrors == IF ConfigParsed THEN configParseResult.errors ELSE << >>

\* C5 as stated: every invocation with showConfig set writes the JSON once and
\* exits with Success if configuration parsing gave no errors, and writes no JSON,
\* reports the errors and exits skipped if it gave errors; none compiles
C5_Original ==
    (ModeResolverRan /\ Terminal /\ commandLine.options.showConfig) =>
        /\ ConfigErrors = << >> => Len(JsonWritten) = 1 /\ ExitStatuses = << "Success" >>
        /\ ConfigErrors # << >> =>
              /\ JsonWritten = << >>
              /\ Reported = ConfigErrors
              /\ ExitStatuses = << Skipped >>
        /\ ~CompilationStarted

\* the invocation came to the configuration step of line 132: it parsed the
\* configuration file, or has file names and no project
ReachedConfigStep ==
    \/ ModeResolverRan /\ pc = "configParsed"
    \/ ModeResolverRan /\ Terminal /\ ConfigParsed
    \/ /\ PassedEarlyExits
       /\ commandLine.options.project = Undefined
       /\ Len(commandLine.fileNames) # 0

\* C5, amended: the same for the invocations with showConfig set that come to the
\* configuration step (line 132); and no invocation with showConfig set compiles
C5_ShowConfig ==
    (ModeResolverRan /\ commandLine.options.showConfig) =>
        /\ ~CompilationStarted
        /\ ReachedConfigStep =>
              \/ pc \in {"resolved", "configParsed"}
              \/ /\ pc = "exited"
                 /\ ConfigErrors = << >>
                 /\ Len(JsonWritten) = 1
                 /\ Reported = << >>
                 /\ ExitStatuses = << "Success" >>
              \/ /\ pc = "exited"
                 /\ ConfigErrors # << >>
                 /\ JsonWritten = << >>
                 /\ Reported = ConfigErrors
                 /\ ExitStatuses = << Skipped >>

\* C5: showConfig with a configuration that sets watch and has errors has exited
C5_Witness ==
    /\ pc = "exited"
    /\ ConfigParsed
    /\ commandLine.options.showConfig
    /\ configParseResult.options.watch
    /\ Len(configParseResult.errors) = MaxErrors

\* the texts written, in order
Written == [i \in 1..Len(OfKind("write")) |-> OfKind("write")[i][2]]

\* C6 as stated: every invocation with no file names and no configuration file
\* found writes the version and then the help, exits with Success and compiles nothing
C6_Original ==
    (/\ ModeResolverRan
     /\ Terminal
     /\ Len(commandLine.fileNames) = 0
     /\ configFileName = Undefined) =>
        /\ Written = << "version", "help" >>
        /\ ExitStatuses = << "Success" >>
        /\ ~CompilationStarted

\* C6, amended: the same for the invocations that pass the earlier checks (build
\* unset, no command-line or locale errors, init, version, help and all unset) and
\* have no project option
C6_NoInputPrintsHelp ==
    (/\ PassedEarlyExits
     /\ commandLine.options.project = Undefined
     /\ Len(commandLine.fileNames) = 0
     /\ configFileName = Undefined) =>
        \/ pc = "resolved" /\ ENABLED PrintHelpNoInput /\ ~ENABLED ParseConfigFile
        \/ /\ pc = "exited"
           /\ Written = << "version", "help" >>
           /\ Reported = << >>
           /\ ExitStatuses = << "Success" >>
           /\ ~CompilationStarted

\* C6: no file names, the watch option, and findConfigFile found nothing: exited
C6_Witness ==
    /\ pc = "exited"
    /\ PassedEarlyExits
    /\ commandLine.options.watch
    /\ Len(commandLine.fileNames) = 0
    /\ CallsOf("findConfigFile") # << >>
    /\ configFileName = Undefined


\* the options the compile branch goes by: the merged options when a configuration
\* file was parsed, the command line's otherwise
EffectiveOptions ==
    IF ConfigParsed THEN configParseResult.options ELSE commandLine.options

\* the diagnostics reported that say the host does not support option
Unsupported(option) == SelectSeq(Reported, LAMBDA d : d = HostDoesNotSupport(option))

\* how often the watch branch was taken: a watch program created, or refused
WatchSetups == NumCalls({"createWatchProgram"}) + Len(Unsupported("--watch"))

\* how often performIncrementalCompilation ran
Incrementals == NumCalls({"performIncrementalCompilation"})

\* how often performCompilation created its program
Singles == NumCalls({"createProgram"})

\* what the engines returned, in order
Returned == [i \in 1..Len(OfKind("return")) |-> OfKind("return")[i][3]]

\* C7: in the compile branch exactly one of watch, incremental and single compile
\* is taken, chosen by the effective options in that order, and the status of an
\* incremental or single compile is the one the engine returned
C7_OneCompileMode ==
    (ModeResolverRan /\ Terminal /\ ReachedConfigStep /\ ~commandLine.options.showConfig) =>
        /\ WatchSetups + Incrementals + Singles = 1
        /\ WatchSetups = 1 <=> EffectiveOptions.watch
        /\ Incrementals = 1 <=> ~EffectiveOptions.watch /\ EffectiveOptions.incremental
        /\ Singles = 1 <=> ~EffectiveOptions.watch /\ ~EffectiveOptions.incremental
        /\ Incrementals + Singles = 1 =>
              /\ pc = "exited"
              /\ Len(Returned) = 1
              /\ ExitStatuses = Returned
              /\ \A i \in 1..Len(trace) :
                    (trace[i][1] = "call"
                     /\ trace[i][2] \in {"createProgram", "performIncrementalCompilation"})
                    => trace[i][3] = EffectiveOptions

\* C7: the incremental option came from the configuration file alone, and the
\* status the engine returned was passed on
C7_Witness ==
    /\ pc = "exited"
    /\ ConfigParsed
    /\ ~commandLine.options.incremental
    /\ configParseResult.options.incremental
    /\ Incrementals = 1
    /\ ExitStatuses = << "DiagnosticsPresent_OutputsGenerated" >>

\* performBuild came past its checks of lines 189-204
BuildPassedEarlyExits ==
    /\ BuildDispatcherRan
    /\ Len(buildCommand.errors) = 0
    /\ ~buildCommand.buildOptions.help
    /\ Len(buildCommand.projects) # 0

\* the host has what line 206 asks for
HostCanBuild ==
    /\ sys.getModifiedTime = "present"
    /\ sys.setModifiedTime = "present"
    /\ buildCommand.buildOptions.clean => sys.deleteFile = "present"

\* C8: build without watch, past the checks: one call of cleanAllProjects (with
\* clean) or of buildAllProjects (without), and its status is the exit status
C8_CleanOrBuildOnce ==
    (/\ BuildPassedEarlyExits
     /\ ~buildCommand.buildOptions.watch
     /\ HostCanBuild
     /\ pc # "buildSupported") =>
        /\ pc = "exited"
        /\ NumCalls({"cleanAllProjects"}) = (IF buildCommand.buildOptions.clean THEN 1 ELSE 0)
        /\ NumCalls({"buildAllProjects"}) = (IF buildCommand.buildOptions.clean THEN 0 ELSE 1)
        /\ Len(Returned) = 1
        /\ ExitStatuses = Returned

\* C8: a clean whose status, skipped, became the exit status
C8_Witness ==
    /\ pc = "exited"
    /\ BuildPassedEarlyExits
    /\ buildCommand.buildOptions.clean
    /\ NumCalls({"cleanAllProjects"}) = 1
    /\ ExitStatuses = << Skipped >>

\* the host cannot watch
HostCannotWatch == sys.watchFile = "absent" \/ sys.watchDirectory = "absent"

\* a watch session, a build host or a build or clean operation was started
ModeStarted ==
    NumCalls({"createWatchProgram", "createWatchCompilerHostOfConfigFile",
              "createWatchCompilerHostOfFilesAndCompilerOptions",
              "createSolutionBuilderHost", "createSolutionBuilderWithWatchHost",
              "createSolutionBuilder", "createSolutionBuilderWithWatch",
              "buildAllProjects", "cleanAllProjects", "startWatching"}) > 0

\* the mode is fatal: one diagnostic saying the host does not support an option,
\* the skipped status, nothing started
FatalForMode ==
    /\ pc = "exited"
    /\ Len(Reported) = 1
    /\ Reported[1][1] = "The_current_host_does_not_support_the_0_option"
    /\ ExitStatuses = << Skipped >>
    /\ ~ModeStarted

\* C9 as stated: whenever watch, build-watch or clean is requested on a host that
\* lacks what the mode needs, the mode is fatal
C9_Original ==
    Terminal =>
        /\ (ModeResolverRan /\ commandLine.options.watch /\ HostCannotWatch) => FatalForMode
        /\ (BuildDispatcherRan /\ buildCommand.buildOptions.watch /\ HostCannotWatch)
              => FatalForMode
        /\ (BuildDispatcherRan /\ buildCommand.buildOptions.clean /\ sys.deleteFile = "absent")
              => FatalForMode

\* C9, amended: the same for the invocations that come to the capability check of
\* the mode; the diagnostic names --watch for watch and build-watch, and --build
\* for clean and for any build on a host that fails the check of line 206
C9_UnsupportedModeIsFatal ==
    Terminal =>
        /\ (/\ ModeResolverRan
            /\ ReachedConfigStep
            /\ ~commandLine.options.showConfig
            /\ EffectiveOptions.watch
            /\ HostCannotWatch)
              => FatalForMode /\ Reported = << HostDoesNotSupport("--watch") >>
        /\ (BuildPassedEarlyExits /\ buildCommand.buildOptions.watch /\ HostCannotWatch)
              => /\ FatalForMode
                 /\ Reported = << HostDoesNotSupport(IF HostCanBuild THEN "--watch"
                                                     ELSE "--build") >>
        /\ (BuildPassedEarlyExits /\ buildCommand.buildOptions.clean
            /\ sys.deleteFile = "absent")
              => FatalForMode /\ Reported = << HostDoesNotSupport("--build") >>

\* C9: a clean on a host that lacks deleteFile only has exited
C9_Witness ==
    /\ pc = "exited"
    /\ BuildPassedEarlyExits
    /\ buildCommand.buildOptions.clean
    /\ sys.deleteFile = "absent"
    /\ sys.getModifiedTime = "present"
    /\ sys.setModifiedTime = "present"
    /\ sys.watchFile = "present"
    /\ sys.watchDirectory = "present"

\* C10: when the process has exited, a diagnostic was reported or the status is
\* Success; a status other than Success that no engine returned follows a diagnostic
C10_NoSilentFailure ==
    pc = "exited" =>
        /\ Reported # << >> \/ ExitStatuses = << "Success" >>
        /\ (Returned = << >> /\ ExitStatuses # << "Success" >>) =>
              /\ ExitStatuses = << Skipped >>
              /\ \E i \in 1..Len(trace) : trace[i][1] = "diag"
              /\ trace[Len(trace) - 1][1] = "diag"

\* C10: performBuild exited with the skipped status of its own choosing
C10_Witness ==
    /\ pc = "exited"
    /\ BuildPassedEarlyExits
    /\ Returned = << >>
    /\ ExitStatuses = << Skipped >>
    /\ Len(Reported) = 1


-----------------------------------------------------------------------------
(* The statistics table.                                                   *)

\* reportStatistics wrote a table
TableWritten == pc = "reported" /\ WantsStatistics(program.options)

\* the names of the rows of stats, in order
RowNames(stats) == [i \in 1..Len(stats) |-> stats[i].name]

\* the value of the first row of stats called name
ValueOf(stats, name) ==
    stats[CHOOSE i \in 1..Len(stats) :
              /\ stats[i].name = name
              /\ \A j \in 1..(i - 1) : stats[j].name # name].value

\* the digit a character stands for
Digit(c) ==
    CASE c = "0" -> 0 [] c = "1" -> 1 [] c = "2" -> 2 [] c = "3" -> 3 [] c = "4" -> 4
      [] c = "5" -> 5 [] c = "6" -> 6 [] c = "7" -> 7 [] c = "8" -> 8 [] c = "9" -> 9

\* value is a time as the table shows it: one digit, a point, two digits and "s"
IsTimeValue(value) ==
    /\ Len(value) = 5
    /\ SubSeq(value, 2, 2) = "."
    /\ SubSeq(value, 5, 5) = "s"
    /\ \A i \in {1, 3, 4} :
          SubSeq(value, i, i) \in {"0", "1", "2", "3", "4", "5", "6", "7", "8", "9"}

\* the hundredths of a second a time value shows
Hundredths(value) ==
    100 * Digit(SubSeq(value, 1, 1)) + 10 * Digit(SubSeq(value, 3, 3))
    + Digit(SubSeq(value, 4, 4))

\* the hundredths the Parse, Bind, Check and Emit rows of stats show, summed
ShownSum(stats) ==
    Hundredths(ValueOf(stats, "Parse time")) + Hundredths(ValueOf(stats, "Bind time"))
    + Hundredths(ValueOf(stats, "Check time")) + Hundredths(ValueOf(stats, "Emit time"))

\* the four durations the total is made of, in milliseconds
ComponentSum ==
    getDuration(measures, "Program") + getDuration(measures, "Bind")
    + getDuration(measures, "Check") + getDuration(measures, "Emit")

\* t is h hundredths of a second when rounded to the nearest hundredth
RoundsTo(t, h) == 10 * h - 5 <= t /\ t <= 10 * h + 5

\* C11 as stated: in a table that shows the Parse, Bind, Check and Emit times, the
\* value of the Total time row is the sum of the four values shown
C11_Original ==
    (TableWritten /\ ~program.options.extendedDiagnostics) =>
        Hundredths(ValueOf(statistics, "Total time")) = ShownSum(statistics)

\* C11, amended: the Total time row shows the sum of the four durations, rounded
\* as one number to two-decimal seconds like every time row; it is within 0.02 s
\* of the sum of the four values shown, each of which is its own duration rounded
C11_TotalTime ==
    TableWritten =>
        /\ IsTimeValue(ValueOf(statistics, "Total time"))
        /\ RoundsTo(ComponentSum, Hundredths(ValueOf(statistics, "Total time")))
        /\ ~program.options.extendedDiagnostics =>
              /\ RoundsTo(getDuration(measures, "Program"),
                          Hundredths(ValueOf(statistics, "Parse time")))
              /\ RoundsTo(getDuration(measures, "Bind"),
                          Hundredths(ValueOf(statistics, "Bind time")))
              /\ RoundsTo(getDuration(measures, "Check"),
                          Hundredths(ValueOf(statistics, "Check time")))
              /\ RoundsTo(getDuration(measures, "Emit"),
                          Hundredths(ValueOf(statistics, "Emit time")))
              /\ Hundredths(ValueOf(statistics, "Total time")) - ShownSum(statistics)
                    \in -2..2

\* C11: a table whose four component rows show 0.00s while the total shows 0.01s,
\* with an I/O read time that is part of no sum
C11_Witness ==
    /\ TableWritten
    /\ ~program.options.extendedDiagnostics
    /\ getDuration(measures, "I/O Read") > 0
    /\ ShownSum(statistics) = 0
    /\ ValueOf(statistics, "Total time") = "0.01s"


\* the texts of the table handed to sys.write, in order
TableLines ==
    LET written == SelectSeq(trace, LAMBDA e : e[1] = "write" /\ e[2] = "statistics")
    IN  [i \in 1..Len(written) |-> written[i][3]]

\* the largest number of a non-empty finite set of numbers
Largest(S) == CHOOSE x \in S : \A y \in S : y <= x

\* the length of the longest name of the statistics
NameWidth == Largest({Len(statistics[i].name) : i \in 1..Len(statistics)})

\* the length of the longest value of the statistics
ValueWidth == Largest({Len(statistics[i].value) : i \in 1..Len(statistics)})

\* text is made of spaces only
AllSpaces(text) == \A k \in 1..Len(text) : SubSeq(text, k, k) = " "

\* C12: the table has one line per statistic, in order; every line is the name and
\* a colon, then spaces (at least one), then the value, then the newline, and is
\* nameWidth + 2 + valueWidth characters long before the newline
C12_TableRendering ==
    TableWritten =>
        /\ Len(TableLines) = Len(statistics)
        /\ \A i \in 1..Len(statistics) :
              LET line == TableLines[i]
                  name == statistics[i].name
                  value == statistics[i].value
                  width == NameWidth + 2 + ValueWidth
              IN  /\ Len(line) = width + Len(NewLine)
                  /\ SubSeq(line, 1, Len(name) + 1) = name \o ":"
                  /\ SubSeq(line, width - Len(value) + 1, width) = value
                  /\ SubSeq(line, width + 1, Len(line)) = NewLine
                  /\ Len(name) + 1 < width - Len(value)
                  /\ AllSpaces(SubSeq(line, Len(name) + 2, width - Len(value)))
                  /\ line = padRight(name \o ":", NameWidth + 2)
                            \o padLeft(value, ValueWidth) \o NewLine

\* C12: a table whose longest value is a count, longer than any time, and whose
\* longest name is that of the memory row
C12_Witness ==
    /\ TableWritten
    /\ ValueWidth = Len("1234567")
    /\ NameWidth = Len("Memory used")
    /\ \E i \in 1..Len(statistics) :
          /\ statistics[i].name = "Memory used"
          /\ TableLines[i] = "Memory used:      2K\n"


-----------------------------------------------------------------------------
(* The passes.                                                             *)

\* where the pass that just ended began: the place in trace of the disable that
\* ended the pass before, 0 if there was none
PassStart ==
    LET before == {i \in 1..(Len(trace) - 1) : trace[i] = <<"perf", "disable", Undefined>>}
    IN  IF before = {} THEN 0 ELSE Largest(before)

\* the places in trace where enableStatistics turned capture on in the pass
PassEnables ==
    {i \in (PassStart + 1)..Len(trace) : trace[i] = <<"perf", "enable", Undefined>>}

\* the milliseconds the engine measured under name in the pass, from place i on
RECURSIVE MeasuredFrom(_, _)
MeasuredFrom(name, i) ==
    IF i > Len(trace) THEN 0
    ELSE (IF trace[i][1] = "measure" /\ trace[i][2] = name THEN trace[i][3] ELSE 0)
         + MeasuredFrom(name, i + 1)

\* the lines of the table written in the pass
PassLines ==
    LET all == {i \in (PassStart + 1)..Len(trace) :
                   trace[i][1] = "write" /\ trace[i][2] = "statistics"}
    IN  Cardinality(all)

\* the rows a table has: six counts, then seven times, or three cache sizes, a row
\* for each measure and the total (no memory row on these hosts)
ExpectedRows ==
    IF program.options.extendedDiagnostics THEN 6 + 3 + Len(measures) + 1 ELSE 6 + 7

-----------------------------------------------------------------------------
(* Capture and the dispatcher's paths.                                     *)

\* the places in trace where a program is created: by performCompilation (line
\* 251), inside ts.performIncrementalCompilation (line 265), or by the engine
\* through the createProgram of updateCreateProgram (line 283)
ProgramCreations ==
    {j \in 1..Len(trace) :
        /\ trace[j][1] = "call"
        /\ trace[j][2] \in {"createProgram", "performIncrementalCompilation",
                             "compileUsingBuilder"}}

\* the places in trace where capture was turned on or off
PerfEvents == {i \in 1..Len(trace) : trace[i][1] = "perf"}

\* capture is on at place j of trace
CaptureOnAt(j) ==
    LET before == {i \in PerfEvents : i < j}
    IN  before # {} /\ trace[Largest(before)][2] = "enable"

-----------------------------------------------------------------------------
(* The order of the early exits.                                           *)

\* the diagnostics writeConfigFile reports (lines 400, 404)
InitDiagnostics ==
    { Diagnostic("A_tsconfig_json_file_is_already_defined_at_Colon_0", InitFile),
      Diagnostic("Successfully_created_a_tsconfig_json_file", Undefined) }

\* C15: the first of the guards build, errors, init, version, help/all that holds
\* decides the outcome alone, whatever the later ones are; project handling and
\* everything after it is reached only when none holds
C15_EarlyExitPrecedence ==
    (ModeResolverRan /\ pc \notin {"parsed", "validated"}) =>
        LET o == commandLine.options
            errors == commandLine.errors
        IN  CASE o.build ->
                   /\ pc = "exited"
                   /\ Reported = << Diagnostic(
                          "Option_build_must_be_the_first_command_line_argument",
                          Undefined) >>
                   /\ ExitStatuses = << Skipped >>
                   /\ Written = << >>
                   /\ NumCalls({"validateLocaleAndSetLanguage", "writeFile"}) = 0
              [] ~o.build /\ errors # << >> ->
                   /\ pc = "exited"
                   /\ Reported = errors
                   /\ ExitStatuses = << Skipped >>
                   /\ Written = << >>
                   /\ NumCalls({"writeFile"}) = 0
              [] ~o.build /\ errors = << >> /\ o.init ->
                   /\ pc = "exited"
                   /\ Len(Reported) = 1
                   /\ Reported[1] \in InitDiagnostics
                   /\ ExitStatuses = << "Success" >>
                   /\ Written = << >>
              [] ~o.build /\ errors = << >> /\ ~o.init /\ o.version ->
                   /\ pc = "exited"
                   /\ Reported = << >>
                   /\ ExitStatuses = << "Success" >>
                   /\ Written = << "version" >>
              [] ~o.build /\ errors = << >> /\ ~o.init /\ ~o.version
                 /\ (o.help \/ o.all) ->
                   /\ pc = "exited"
                   /\ Reported = << >>
                   /\ ExitStatuses = << "Success" >>
                   /\ Written = << "version", "help" >>
              [] OTHER ->
                   /\ PassedEarlyExits
                   /\ NumCalls({"writeFile"}) = 0
        /\ (pc = "exited" /\ ~PassedEarlyExits) =>
              /\ NumConfigLookups = 0
              /\ ~CompilationStarted

\* C15: init and version were both set, and init decided
C15_Witness ==
    /\ pc = "exited"
    /\ ModeResolverRan
    /\ commandLine.options.init
    /\ commandLine.options.version
    /\ commandLine.errors = << >>
    /\ NumCalls({"writeFile"}) = 1
    /\ Written = << >>


-----------------------------------------------------------------------------
(* The order of the checks of performBuild.                                *)

\* the places in trace where a diagnostic was reported
DiagEvents == {i \in 1..Len(trace) : trace[i][1] = "diag"}

\* the places in trace where a reporter was bound
RebindEvents == {i \in 1..Len(trace) : trace[i][1] = "rebind"}

\* C16: performBuild first finalizes prettiness, so every diagnostic goes through
\* the reporter buildOptions ask for; then errors exit skipped, even with help set;
\* then help or no projects exits with Success and no diagnostic, whatever the host
\* lacks; only then the host is looked at
C16_BuildDispatcherOrder ==
    (BuildDispatcherRan /\ pc # "buildParsed") =>
        LET o == buildCommand.buildOptions
        IN  /\ \A i \in DiagEvents :
                  /\ trace[i][3] = ShouldBePretty(o)
                  /\ \A r \in RebindEvents : r < i
            /\ reporterPretty = ShouldBePretty(o)
            /\ CASE buildCommand.errors # << >> ->
                       /\ pc = "exited"
                       /\ Reported = buildCommand.errors
                       /\ ExitStatuses = << Skipped >>
                       /\ Written = << >>
                  [] buildCommand.errors = << >>
                     /\ (o.help \/ Len(buildCommand.projects) = 0) ->
                       /\ pc = "exited"
                       /\ Reported = << >>
                       /\ ExitStatuses = << "Success" >>
                       /\ Written = << "version", "help" >>
                       /\ ~ModeStarted
                  [] OTHER ->
                       /\ ~HostCanBuild =>
                             /\ pc = "exited"
                             /\ Reported = << HostDoesNotSupport("--build") >>
                             /\ ExitStatuses = << Skipped >>
                       /\ HostCanBuild => Unsupported("--build") = << >>

\* C16: help for a build with projects, clean and watch asked for, on a host that
\* has none of what a build needs: the help was printed
C16_Witness ==
    /\ pc = "exited"
    /\ BuildDispatcherRan
    /\ buildCommand.buildOptions.help
    /\ buildCommand.buildOptions.clean
    /\ buildCommand.buildOptions.watch
    /\ buildCommand.buildOptions.pretty = "false"
    /\ Len(buildCommand.projects) = MaxFiles
    /\ \A p \in {"getModifiedTime", "setModifiedTime", "deleteFile", "watchFile",
                   "watchDirectory"} : sys[p] = "absent"
    /\ ExitStatuses = << "Success" >>


-----------------------------------------------------------------------------
(* Watch sessions.                                                         *)

\* the places in trace of the calls of collaborator c
PlacesOf(c) == {i \in 1..Len(trace) : trace[i][1] = "call" /\ trace[i][2] = c}

\* the places in trace where the hook was put on a host
HookPlaces(hook) == {i \in 1..Len(trace) : trace[i] = SetHook(hook)}

\* the host can watch
HostCanWatch == sys.watchFile = "present" /\ sys.watchDirectory = "present"

-----------------------------------------------------------------------------
(* The reporter.                                                           *)

\* what shouldBePretty is to give for options: the pretty option if it is set, what
\* the terminal probe says otherwise (false if the host has no probe)
WantedPretty(options) ==
    IF options.pretty # Undefined THEN options.pretty = "true"
    ELSE sys.writeOutputIsTTY = "true"

-----------------------------------------------------------------------------
(* The rows of the statistics.                                             *)

\* the rows every table starts with
CountRows == <<"Files", "Lines", "Nodes", "Identifiers", "Symbols", "Types">>

\* the memory row: there if the host has the probe and it gave no negative number
MemoryRows ==
    IF sys.getMemoryUsage = "present" /\ sys.memoryUsage >= 0 THEN <<"Memory used">>
    ELSE << >>

\* the timing rows: the six component times under diagnostics alone, the three
\* cache sizes and a row for every measure under extendedDiagnostics
TimingRows ==
    IF program.options.extendedDiagnostics
    THEN <<"Assignability cache size", "Identity cache size", "Subtype cache size">>
         \o [i \in 1..Len(measures) |-> measures[i][1] \o " time"]
    ELSE <<"I/O read", "I/O write", "Parse time", "Bind time", "Check time", "Emit time">>

\* C19: once reportStatistics has returned, if diagnostics or extendedDiagnostics
\* is set the rows collected are the six counts, the memory row exactly if the host
\* has a memory probe that gave no negative number, the timing rows, and Total time
\* last, every row is written and performance is disabled after; if neither is set
\* nothing was collected or written and performance.disable was not called
C19_RowOrder ==
    pc = "reported" =>
        IF program.options.diagnostics \/ program.options.extendedDiagnostics
        THEN /\ RowNames(statistics)
                  = CountRows \o MemoryRows \o TimingRows \o <<"Total time">>
             /\ Len(TableLines) = Len(statistics)
             /\ trace[Len(trace)] = <<"perf", "disable", Undefined>>
        ELSE /\ statistics = << >>
             /\ trace = << >>

\* C19: a table under extendedDiagnostics on a host whose memory probe gave zero,
\* with a row for each of six measures between the cache sizes and the total
C19_Witness ==
    /\ pc = "reported"
    /\ program.options.extendedDiagnostics
    /\ sys.getMemoryUsage = "present"
    /\ sys.memoryUsage = 0
    /\ Len(measures) = 6
    /\ Len(statistics) = 17
    /\ statistics[7] = [name |-> "Memory used", value |-> "0K"]
    /\ statistics[11].name = "I/O Read time"
    /\ statistics[17].name = "Total time"


-----------------------------------------------------------------------------
(* The configuration file of a project.                                    *)

\* the file system answered found to the probe what
Answered(what, found) == \E i \in 1..Len(trace) : trace[i] = Answer(what, found)

\* the project is taken for a directory: its normalized path is empty, or
\* sys.directoryExists found it
ProjectIsDirectory ==
    \/ NormalizePath(commandLine.options.project) = ""
    \/ Answered("directoryExists", TRUE)

\* the configuration file of the project: the tsconfig.json of the directory, or
\* the path itself
ProjectConfigFile ==
    IF ProjectIsDirectory
    THEN CombinePaths(NormalizePath(commandLine.options.project), "tsconfig.json")
    ELSE NormalizePath(commandLine.options.project)

\* the one diagnostic about a configuration file of the project that is not there
ProjectFileNotFound ==
    Diagnostic(IF ProjectIsDirectory
               THEN "Cannot_find_a_tsconfig_json_file_at_the_specified_directory_Colon_0"
               ELSE "The_specified_path_does_not_exist_Colon_0",
               commandLine.options.project)

\* findConfigFile runs only with project unset and no file names, and an invocation
\* with file names and no project never looks for or parses a configuration file
UpwardSearchOnlyWithoutInput ==
    /\ CallsOf("findConfigFile") # << >> =>
          /\ ModeResolverRan
          /\ commandLine.options.project = Undefined
          /\ Len(commandLine.fileNames) = 0
    /\ (/\ ModeResolverRan
        /\ commandLine.options.project = Undefined
        /\ Len(commandLine.fileNames) # 0) =>
          /\ configFileName = Undefined
          /\ NumConfigLookups = 0

\* C20 as stated: in every invocation that ended with project set and no file
\* names, the configuration file name is the tsconfig.json of the project if that
\* is empty or an existing directory, the project path otherwise, and if that file
\* is not there one diagnostic is reported, the status is skipped and no
\* configuration is parsed; findConfigFile runs only with project unset and no file
\* names, and file names without a project never load a configuration
C20_Original ==
    /\ (/\ ModeResolverRan
        /\ Terminal
        /\ commandLine.options.project # Undefined
        /\ Len(commandLine.fileNames) = 0) =>
          /\ configFileName = ProjectConfigFile
          /\ Answered("fileExists", FALSE) =>
                /\ Reported = << ProjectFileNotFound >>
                /\ ExitStatuses = << Skipped >>
                /\ ~ConfigParsed
    /\ UpwardSearchOnlyWithoutInput

\* C20, amended: the same for the invocations that pass the earlier checks (build
\* unset, no command-line or locale errors, init, version, help and all unset), the
\* empty project being the one whose normalized path is empty; the file is probed
\* once, under the name resolved, and the upward search does not run
C20_ProjectResolution ==
    /\ (/\ PassedEarlyExits
        /\ commandLine.options.project # Undefined
        /\ Len(commandLine.fileNames) = 0) =>
          /\ configFileName = ProjectConfigFile
          /\ CallsOf("fileExists") = << Call("fileExists", ProjectConfigFile) >>
          /\ Answered("fileExists", TRUE) # Answered("fileExists", FALSE)
          /\ NumCalls({"directoryExists"})
                = (IF NormalizePath(commandLine.options.project) = "" THEN 0 ELSE 1)
          /\ NumCalls({"findConfigFile"}) = 0
          /\ Answered("fileExists", FALSE) =>
                /\ pc = "exited"
                /\ Reported = << ProjectFileNotFound >>
                /\ ExitStatuses = << Skipped >>
                /\ ~ConfigParsed
          /\ ConfigParsed => Answered("fileExists", TRUE)
    /\ UpwardSearchOnlyWithoutInput

\* C20: the project "p" is no directory and no file: the path itself was resolved
\* and probed, and the invocation ended with the one diagnostic about it
C20_Witness ==
    /\ PassedEarlyExits
    /\ pc = "exited"
    /\ commandLine.options.project = "p"
    /\ Len(commandLine.fileNames) = 0
    /\ Answered("directoryExists", FALSE)
    /\ Answered("fileExists", FALSE)
    /\ configFileName = "p"
    /\ Reported = << Diagnostic("The_specified_path_does_not_exist_Colon_0", "p") >>


-----------------------------------------------------------------------------
(* The scaffolded configuration file.                                      *)

\* the diagnostic of line 400
AlreadyDefined ==
    Diagnostic("A_tsconfig_json_file_is_already_defined_at_Colon_0", InitFile)

\* the diagnostic of line 404
SuccessfullyCreated == Diagnostic("Successfully_created_a_tsconfig_json_file", Undefined)

\* what writeConfigFile is to leave behind: the file probed once, written once and
\* only if it was not there, one diagnostic that says which, and the status Success
ScaffoldedOnce ==
    /\ pc = "exited"
    /\ CallsOf("fileExists") = << Call("fileExists", InitFile) >>
    /\ Answered("fileExists", TRUE) # Answered("fileExists", FALSE)
    /\ IF Answered("fileExists", TRUE)
       THEN /\ NumCalls({"writeFile"}) = 0
            /\ Reported = << AlreadyDefined >>
       ELSE /\ CallsOf("writeFile") = << Call("writeFile", InitFile) >>
            /\ Reported = << SuccessfullyCreated >>
    /\ ExitStatuses = << "Success" >>

\* C21 as stated: in every invocation that ended with init set and no command-line
\* errors, the tsconfig.json of the current directory was written exactly if it was
\* not there, one diagnostic was reported, and the status is Success
C21_Original ==
    (/\ ModeResolverRan
     /\ Terminal
     /\ commandLine.options.init
     /\ commandLine.errors = << >>) => ScaffoldedOnce

\* C21, amended: the same for the invocations with build unset; and the file is
\* written in no other invocation
C21_InitNeverOverwrites ==
    /\ (/\ ModeResolverRan
        /\ pc \notin {"parsed", "validated"}
        /\ ~commandLine.options.build
        /\ commandLine.options.init
        /\ commandLine.errors = << >>) => ScaffoldedOnce
    /\ NumCalls({"writeFile"}) > 0 =>
          /\ ModeResolverRan
          /\ commandLine.options.init
          /\ Answered("fileExists", FALSE)

\* C21: the file was there: it was left alone, the diagnostic says so, and the
\* status is Success all the same
C21_Witness ==
    /\ pc = "exited"
    /\ ModeResolverRan
    /\ commandLine.options.init
    /\ ~commandLine.options.build
    /\ commandLine.errors = << >>
    /\ Answered("fileExists", TRUE)
    /\ NumCalls({"writeFile"}) = 0
    /\ Reported = << AlreadyDefined >>
    /\ ExitStatuses = << "Success" >>

=============================================================================
